---- MODULE Spec2Model ----
(***************************************************************************)
(* naver_ad_rank_bot2: the rank-streak detector (main.py), the stats       *)
(* aggregator (stats_checker.py) and the signed HTTP client's retry loop   *)
(* (naver_client.py).                                                      *)
(*                                                                         *)
(* Units.  Ranks are counted in hundredths (1.5 is 150, 1.2 is 120), so    *)
(* that every rank of the model is an integer.  An average rank, which     *)
(* the code computes by a division, is the exact quotient kept as a        *)
(* reduced fraction [def, n, d]; Python's None is the record None.  The    *)
(* float that the division gives is computed next to it (FloatAverages),   *)
(* for the calls of summarize_by_keyword on their own.                     *)
(***************************************************************************)
EXTENDS Integers, Sequences, FiniteSets, TLC

(***************************************************************************)
(* Configuration (config.py).  Every value is read from the environment    *)
(* with the default given there.                                           *)
(***************************************************************************)
\* RANK_THRESHOLD = 1.5, in hundredths
RANK_THRESHOLD == 150
MIN_IMP == 30
STREAK_THRESHOLD == 2

(***************************************************************************)
(* Bounds of the model.                                                    *)
(***************************************************************************)
\* the number of runs of the program a behaviour holds
MaxRuns == 4

(***************************************************************************)
(* Values.                                                                 *)
(***************************************************************************)
None == [def |-> FALSE, n |-> 0, d |-> 1]

RECURSIVE Gcd(_, _)
Gcd(a, b) == IF b = 0 THEN a ELSE Gcd(b, a % b)

\* the quotient a / b (b > 0, a >= 0) as a reduced fraction
Quot(a, b) ==
    LET g == Gcd(a, b)
    IN  [def |-> TRUE, n |-> a \div g, d |-> b \div g]

\* a rank given in hundredths, as a value of the same kind
Rank(h) == [def |-> TRUE, n |-> h, d |-> 1]

\* r <= h for an average rank r and a rank h in hundredths
RankLeq(r, h) == r.n <= h * r.d

Keywords == {"k1", "k2"}
DETECT_DEVS == <<"PC", "MOBILE">>
DetectDevs == {"PC", "MOBILE"}

\* the device labels a row may carry; "" is a row with no label in any of the
\* fields the code looks at; "KO_MOBILE" stands for the Hangul label of the
\* mobile device, which str.upper() leaves as it is
Labels == {"PC", "pc", "MOBILE", "Mobile", "KO_MOBILE", "tablet", ""}

\* str.upper() on the labels
Upper(s) ==
    CASE s = "pc" -> "PC"
      [] s = "Mobile" -> "MOBILE"
      [] s = "tablet" -> "TABLET"
      [] OTHER -> s

(***************************************************************************)
(* summarize_by_keyword (stats_checker.py).  A row is                      *)
(*   [id, dev, impCnt, clkCnt, hasRnk, avgRnk]                             *)
(* where id is "" when the row has none of id / nccKeywordId / keywordId,  *)
(* dev is the first non-empty label of the row ("" when it has none) and   *)
(* hasRnk is FALSE when avgRnk is None or "".                              *)
(***************************************************************************)
\* id_to_keyword.get(rid), "" when absent
KwOf(id_to_keyword, rid) ==
    IF rid \in DOMAIN id_to_keyword THEN id_to_keyword[rid] ELSE ""

\* DevKey with PC for a row without a label
DevKey_DefaultPC(row) ==
    LET dev == Upper(row.dev)
    IN  IF dev = "" THEN "PC" ELSE dev

\* lines 106-109: the device key of a row
DevKey(row) ==
    LET dev == Upper(row.dev)
    IN  IF dev = "" THEN "UNKNOWN" ELSE dev

\* lines 96-102: the row is skipped
Skipped(row, id_to_keyword) ==
    \/ row.id = ""
    \/ KwOf(id_to_keyword, row.id) = ""

ZeroBucket == [imp |-> 0, clk |-> 0, avgRnk |-> 0, w |-> 0]

\* lines 111-124: one row added to its bucket
AddRow(m, row) ==
    LET counts == row.hasRnk /\ row.impCnt > 0
    IN  [imp    |-> m.imp + row.impCnt,
         clk    |-> m.clk + row.clkCnt,
         avgRnk |-> IF counts THEN m.avgRnk + row.avgRnk * row.impCnt ELSE m.avgRnk,
         w      |-> IF counts THEN m.w + row.impCnt ELSE m.w]

\* lines 95-124: the accumulator after the rows, keyed by <<keyword, device>>,
\* with the keywords in the order of their first row
RECURSIVE Accumulate(_, _, _)
Accumulate(acc, raw_rows, id_to_keyword) ==
    IF raw_rows = <<>> THEN acc
    ELSE
        LET row == Head(raw_rows)
            kw  == KwOf(id_to_keyword, row.id)
            key == <<kw, DevKey(row)>>
            old == IF key \in DOMAIN acc.b THEN acc.b[key] ELSE ZeroBucket
            nb  == [k \in DOMAIN acc.b \cup {key} |->
                      IF k = key THEN AddRow(old, row) ELSE acc.b[k]]
            nk  == IF \E i \in 1..Len(acc.keys) : acc.keys[i] = kw
                   THEN acc.keys ELSE Append(acc.keys, kw)
        IN  IF Skipped(row, id_to_keyword)
            THEN Accumulate(acc, Tail(raw_rows), id_to_keyword)
            ELSE Accumulate([keys |-> nk, b |-> nb], Tail(raw_rows), id_to_keyword)

\* Finalize with rank 0 for a bucket without weight
Finalize_ZeroWithoutWeight(m) ==
    [imp    |-> m.imp,
     clk    |-> m.clk,
     avgRnk |-> IF m.w > 0 THEN Quot(m.avgRnk, m.w) ELSE Rank(0)]

\* lines 131-136: a bucket of the result
Finalize(m) ==
    [imp    |-> m.imp,
     clk    |-> m.clk,
     avgRnk |-> IF m.w > 0 THEN Quot(m.avgRnk, m.w) ELSE None]

\* the summary: keys is the order of the result's keywords, devs[kw] the
\* keyword's buckets by device key
summarize_by_keyword(raw_rows, id_to_keyword) ==
    LET acc == Accumulate([keys |-> <<>>, b |-> <<>>], raw_rows, id_to_keyword)
        kws == {acc.keys[i] : i \in 1..Len(acc.keys)}
    IN  [keys |-> acc.keys,
         devs |-> [kw \in kws |->
                     [dev \in {k[2] : k \in {x \in DOMAIN acc.b : x[1] = kw}} |->
                        Finalize(acc.b[<<kw, dev>>])]]]

(***************************************************************************)
(* The rows as the platform's JSON gives them.  A field's value is          *)
(*   [t, num, v, s]                                                         *)
(* with t one of absent, null, num, str, list; v is the number (for a list  *)
(* its length), s the text, and num says that float() parses the text, to   *)
(* the number v.  An element of the rows list is a dict of such fields, or  *)
(* a text or null (kind).                                                   *)
(***************************************************************************)
Val(t, num, v, s) == [t |-> t, num |-> num, v |-> v, s |-> s]
NoField == Val("absent", FALSE, 0, "")
Num(v) == Val("num", TRUE, v, "")
Str(s) == Val("str", FALSE, 0, s)
\* a text float() parses, to v
NumStr(s, v) == Val("str", TRUE, v, s)

\* not x, for a JSON value x
Falsy(x) ==
    \/ x.t \in {"absent", "null"}
    \/ x.t \in {"num", "list"} /\ x.v = 0
    \/ x.t = "str" /\ x.s = ""

Converted(v) == [err |-> "", has |-> TRUE, v |-> v]
Raises(err) == [err |-> err, has |-> FALSE, v |-> 0]

\* float(x)
PyFloat(x) ==
    CASE x.t = "num" -> Converted(x.v)
      [] x.t = "str" -> IF x.num THEN Converted(x.v) ELSE Raises("ValueError")
      [] OTHER -> Raises("TypeError")

\* lines 111-112: float(row.get(...) or 0)
FloatOrZero(x) == IF Falsy(x) THEN Converted(0) ELSE PyFloat(x)

\* lines 113-114: float(avg) if avg is not None and avg != "" else None
FloatOrNone(x) ==
    IF x.t \in {"absent", "null"} \/ (x.t = "str" /\ x.s = "")
    THEN [err |-> "", has |-> FALSE, v |-> 0]
    ELSE PyFloat(x)

NoBody == [shape |-> "", rows |-> <<>>]

RawRow(kind, id, dev, imp, clk, rnk) ==
    [kind |-> kind, id |-> id, dev |-> dev, impCnt |-> imp, clkCnt |-> clk,
     avgRnk |-> rnk, raw |-> NoBody]

\* line 73: {"_raw": rows}
Wrapped(rows) ==
    [kind |-> "dict", id |-> NoField, dev |-> NoField, impCnt |-> NoField,
     clkCnt |-> NoField, avgRnk |-> NoField, raw |-> rows]

\* lines 96-102: the row is passed over before its values are read
PassedOver(row, id_to_keyword) ==
    \/ Falsy(row.id)
    \/ row.id.t = "num"
    \/ row.id.t = "str" /\ KwOf(id_to_keyword, row.id.s) = ""

\* lines 96-114: the exception the row raises, "" when it raises none
RowError(row, id_to_keyword) ==
    IF row.kind # "dict" THEN "AttributeError"                 \* row.get
    ELSE IF Falsy(row.id) THEN ""
    ELSE IF row.id.t = "list" THEN "TypeError"                 \* unhashable key
    ELSE IF PassedOver(row, id_to_keyword) THEN ""
    ELSE IF ~Falsy(row.dev) /\ row.dev.t # "str" THEN "AttributeError"  \* .upper()
    ELSE IF FloatOrZero(row.impCnt).err # "" THEN FloatOrZero(row.impCnt).err
    ELSE IF FloatOrZero(row.clkCnt).err # "" THEN FloatOrZero(row.clkCnt).err
    ELSE FloatOrNone(row.avgRnk).err

\* lines 96-114: the values the loop reads from a row that raises nothing
Values(row, id_to_keyword) ==
    IF PassedOver(row, id_to_keyword)
    THEN [id |-> "", dev |-> "", impCnt |-> 0, clkCnt |-> 0, hasRnk |-> FALSE, avgRnk |-> 0]
    ELSE [id     |-> row.id.s,
          dev    |-> IF Falsy(row.dev) THEN "" ELSE row.dev.s,
          impCnt |-> FloatOrZero(row.impCnt).v,
          clkCnt |-> FloatOrZero(row.clkCnt).v,
          hasRnk |-> FloatOrNone(row.avgRnk).has,
          avgRnk |-> FloatOrNone(row.avgRnk).v]

\* lines 93-137 on the rows as they come: the exception of the first row that
\* raises one leaves summarize_by_keyword; with none, the summary
SummarizeRows(raw_rows, id_to_keyword) ==
    LET bad == {i \in 1..Len(raw_rows) : RowError(raw_rows[i], id_to_keyword) # ""}
    IN  IF bad # {}
        THEN [raised |-> RowError(raw_rows[CHOOSE i \in bad : \A j \in bad : i <= j],
                                  id_to_keyword),
              out |-> [keys |-> <<>>, devs |-> <<>>]]
        ELSE [raised |-> "",
              out |-> summarize_by_keyword(
                          [i \in 1..Len(raw_rows) |-> Values(raw_rows[i], id_to_keyword)],
                          id_to_keyword)]

\* lines 62-73 of stats_checker.py: what a parsed body adds to all_rows; a
\* body is a list of rows, a dict whose data is one (envelope), or a dict
\* without such a field, a text or null
NormalizedBody(data) ==
    IF data.shape \in {"list", "envelope"} THEN data.rows ELSE <<Wrapped(data)>>

(***************************************************************************)
(* The average rank as the code computes it: in Python floats (IEEE 754    *)
(* binary64, round to nearest, ties to even).  A float x > 0 is [m, e]     *)
(* with x = m * 2^e and m a natural number of exactly 53 bits; 0.0 is      *)
(* FZero.  A natural number is the sequence of its digits in base BASE,    *)
(* the lowest first, with no leading zero digit (0 is <<>>), so that no    *)
(* intermediate value of the arithmetic leaves TLC's integers.             *)
(***************************************************************************)
BASE == 8192
\* the bits of a digit
BASE_BITS == 13
\* the bits of the significand of a binary64
MANT_BITS == 53

RECURSIVE Pow2(_)
Pow2(k) == IF k = 0 THEN 1 ELSE 2 * Pow2(k - 1)

\* the number of a small integer n >= 0
RECURSIVE BigOf(_)
BigOf(n) == IF n = 0 THEN <<>> ELSE <<n % BASE>> \o BigOf(n \div BASE)

\* a * k + carry, for a small k > 0
RECURSIVE BigMulSmall(_, _, _)
BigMulSmall(a, k, carry) ==
    IF a = <<>> THEN BigOf(carry)
    ELSE LET t == Head(a) * k + carry
         IN  <<t % BASE>> \o BigMulSmall(Tail(a), k, t \div BASE)

\* the quotient q and the remainder r of a by a small d > 0
RECURSIVE BigDivSmall(_, _)
BigDivSmall(a, d) ==
    IF a = <<>> THEN [q |-> <<>>, r |-> 0]
    ELSE LET hi == BigDivSmall(Tail(a), d)
             t  == hi.r * BASE + Head(a)
         IN  [q |-> IF hi.q = <<>> /\ t \div d = 0 THEN <<>> ELSE <<t \div d>> \o hi.q,
              r |-> t % d]

\* a + b + carry
RECURSIVE BigAdd(_, _, _)
BigAdd(a, b, carry) ==
    IF a = <<>> /\ b = <<>> THEN BigOf(carry)
    ELSE LET x == IF a = <<>> THEN 0 ELSE Head(a)
             y == IF b = <<>> THEN 0 ELSE Head(b)
             t == x + y + carry
         IN  <<t % BASE>> \o BigAdd(IF a = <<>> THEN a ELSE Tail(a),
                                    IF b = <<>> THEN b ELSE Tail(b), t \div BASE)

\* a <= b
RECURSIVE BigLeq(_, _)
BigLeq(a, b) ==
    IF Len(a) # Len(b) THEN Len(a) < Len(b)
    ELSE IF a = <<>> THEN TRUE
    ELSE IF Tail(a) = Tail(b) THEN Head(a) <= Head(b)
    ELSE BigLeq(Tail(a), Tail(b))

\* the bits of a small integer n >= 0
RECURSIVE SmallBitLen(_)
SmallBitLen(n) == IF n = 0 THEN 0 ELSE 1 + SmallBitLen(n \div 2)

BitLen(a) ==
    IF a = <<>> THEN 0 ELSE (Len(a) - 1) * BASE_BITS + SmallBitLen(a[Len(a)])

\* a * 2^s
ShiftLeft(a, s) ==
    IF a = <<>> THEN a
    ELSE [i \in 1..(s \div BASE_BITS) |-> 0] \o BigMulSmall(a, Pow2(s % BASE_BITS), 0)

FZero == [m |-> <<>>, e |-> 0]

\* the float nearest to n * 2^e (n > 0), ties to even; sticky says that the
\* exact value is above n * 2^e and below (n + 1) * 2^e
RECURSIVE Round(_, _, _)
Round(n, e, sticky) ==
    LET L == BitLen(n)
        d == BigDivSmall(n, 2)
    IN  IF L > MANT_BITS + 1 THEN Round(d.q, e + 1, sticky \/ d.r = 1)
        ELSE IF L = MANT_BITS + 1
        THEN LET up == d.r = 1 /\ (sticky \/ d.q[1] % 2 = 1)
                 m  == IF up THEN BigAdd(d.q, <<1>>, 0) ELSE d.q
             IN  IF BitLen(m) > MANT_BITS
                 THEN [m |-> BigDivSmall(m, 2).q, e |-> e + 2]
                 ELSE [m |-> m, e |-> e + 1]
        ELSE [m |-> ShiftLeft(n, MANT_BITS - L), e |-> e - (MANT_BITS - L)]

\* float(n) of an integer n >= 0
FOfInt(n) == IF n = 0 THEN FZero ELSE Round(BigOf(n), 0, FALSE)

\* x * float(k) for an integer k > 0
FMul(x, k) == IF x = FZero THEN FZero ELSE Round(BigMulSmall(x.m, k, 0), x.e, FALSE)

\* x + y
FAdd(x, y) ==
    IF x = FZero THEN y
    ELSE IF y = FZero THEN x
    ELSE LET e == IF x.e < y.e THEN x.e ELSE y.e
         IN  Round(BigAdd(ShiftLeft(x.m, x.e - e), ShiftLeft(y.m, y.e - e), 0), e, FALSE)

\* x / float(w) for an integer w, 0 < w < 2^10
FDiv(x, w) ==
    IF x = FZero THEN FZero
    ELSE LET d == BigDivSmall(ShiftLeft(x.m, BASE_BITS), w)
         IN  Round(d.q, x.e - BASE_BITS, d.r # 0)

\* the float of the decimal numeral of a rank given in hundredths: the float
\* nearest to h / 100, as json.loads and float() give it
FOfRank(h) == FDiv(FOfInt(h), 100)

\* avgRnk of a bucket without weight
FNone == [def |-> FALSE, f |-> FZero]

\* lines 122-123: acc[kw][dev]["avgRnk"] after the rows from the i-th on, for
\* the bucket of kw and dev
RECURSIVE FloatWeighted(_, _, _, _, _, _)
FloatWeighted(raw_rows, id_to_keyword, kw, dev, i, acc) ==
    IF i > Len(raw_rows) THEN acc
    ELSE LET row == raw_rows[i]
             in_bucket == /\ ~Skipped(row, id_to_keyword)
                          /\ KwOf(id_to_keyword, row.id) = kw
                          /\ DevKey(row) = dev
             counts == row.hasRnk /\ row.impCnt > 0
         IN  FloatWeighted(raw_rows, id_to_keyword, kw, dev, i + 1,
                IF in_bucket /\ counts
                THEN FAdd(acc, FMul(FOfRank(row.avgRnk), row.impCnt))
                ELSE acc)

\* FloatFinalize dividing by the impressions of all the bucket's rows
FloatFinalize_ByAllImpressions(sum, m) ==
    IF m.w > 0 THEN [def |-> TRUE, f |-> FDiv(sum, m.imp)] ELSE FNone

\* line 135: (m["avgRnk"] / w) if w > 0 else None; m is the bucket with its
\* exact sums (the sums of impressions are integers, exact as floats)
FloatFinalize(sum, m) ==
    IF m.w > 0 THEN [def |-> TRUE, f |-> FDiv(sum, m.w)] ELSE FNone

\* the avgRnk values of the result of summarize_by_keyword, as floats
FloatAverages(raw_rows, id_to_keyword) ==
    LET acc == Accumulate([keys |-> <<>>, b |-> <<>>], raw_rows, id_to_keyword)
    IN  [key \in DOMAIN acc.b |->
            FloatFinalize(FloatWeighted(raw_rows, id_to_keyword, key[1], key[2], 1, FZero),
                          acc.b[key])]

(***************************************************************************)
(* The streak detector (main.py).                                          *)
(***************************************************************************)
\* is_top_like with a rank at the threshold not counted
is_top_like_BelowThreshold(imp, avg_rnk) ==
    IF ~avg_rnk.def THEN FALSE
    ELSE IF imp < MIN_IMP THEN FALSE
    ELSE avg_rnk.n < RANK_THRESHOLD * avg_rnk.d

\* lines 14-19
is_top_like(imp, avg_rnk) ==
    IF ~avg_rnk.def THEN FALSE
    ELSE IF imp < MIN_IMP THEN FALSE
    ELSE RankLeq(avg_rnk, RANK_THRESHOLD)

\* lines 152-155: the entry state.setdefault gives a keyword the state lacks
InitEntry ==
    [dev \in DetectDevs |-> [streak |-> 0, last_avgRnk |-> None, last_imp |-> 0]]

\* str.lower() on the detector's two device keys
Lower(s) == IF s = "PC" THEN "pc" ELSE IF s = "MOBILE" THEN "mobile" ELSE s

\* line 159-160: the keyword has data for the device key
HasDev(devs, dev_key) ==
    dev_key \in DOMAIN devs \/ Lower(dev_key) \in DOMAIN devs

\* line 159: devs.get(dev_key) or devs.get(dev_key.lower()) or devs.get(dev_key.upper())
PickDev(devs, dev_key) ==
    IF dev_key \in DOMAIN devs THEN devs[dev_key] ELSE devs[Lower(dev_key)]

\* StepDev with the last-observed values kept when the predicate fails
StepDev_LastOnlyOnHit(e, dev_data) ==
    LET imp      == dev_data.imp
        avg      == dev_data.avgRnk
        top_like == is_top_like(imp, avg)
        counted  == IF top_like THEN e.streak + 1 ELSE 0
        alert    == counted >= STREAK_THRESHOLD
    IN  [entry   |-> [streak      |-> IF alert THEN 0 ELSE counted,
                      last_avgRnk |-> IF top_like THEN avg ELSE e.last_avgRnk,
                      last_imp    |-> IF top_like THEN imp ELSE e.last_imp],
         counted |-> counted,
         alert   |-> alert,
         record  |-> [streak |-> counted, avg |-> avg, imp |-> imp]]

\* StepDev alerting only above the threshold
StepDev_AlertAbove(e, dev_data) ==
    LET imp      == dev_data.imp
        avg      == dev_data.avgRnk
        top_like == is_top_like(imp, avg)
        counted  == IF top_like THEN e.streak + 1 ELSE 0
        alert    == counted > STREAK_THRESHOLD
    IN  [entry   |-> [streak      |-> IF alert THEN 0 ELSE counted,
                      last_avgRnk |-> avg,
                      last_imp    |-> imp],
         counted |-> counted,
         alert   |-> alert,
         record  |-> [streak |-> counted, avg |-> avg, imp |-> imp]]

\* StepDev without line 179: the counter is kept after an alert
StepDev_NoResetAfterAlert(e, dev_data) ==
    LET imp      == dev_data.imp
        avg      == dev_data.avgRnk
        top_like == is_top_like(imp, avg)
        counted  == IF top_like THEN e.streak + 1 ELSE 0
        alert    == counted >= STREAK_THRESHOLD
    IN  [entry   |-> [streak      |-> counted,
                      last_avgRnk |-> avg,
                      last_imp    |-> imp],
         counted |-> counted,
         alert   |-> alert,
         record  |-> [streak |-> counted, avg |-> avg, imp |-> imp]]

\* StepDev without lines 170-171: the counter is kept when the predicate fails
StepDev_NoResetOnMiss(e, dev_data) ==
    LET imp      == dev_data.imp
        avg      == dev_data.avgRnk
        top_like == is_top_like(imp, avg)
        counted  == IF top_like THEN e.streak + 1 ELSE e.streak
        alert    == counted >= STREAK_THRESHOLD
    IN  [entry   |-> [streak      |-> IF alert THEN 0 ELSE counted,
                      last_avgRnk |-> avg,
                      last_imp    |-> imp],
         counted |-> counted,
         alert   |-> alert,
         record  |-> [streak |-> counted, avg |-> avg, imp |-> imp]]

\* StepDev with the counter left one below the threshold after an alert
StepDev_KeepArmed(e, dev_data) ==
    LET imp      == dev_data.imp
        avg      == dev_data.avgRnk
        top_like == is_top_like(imp, avg)
        counted  == IF top_like THEN e.streak + 1 ELSE 0
        alert    == counted >= STREAK_THRESHOLD
    IN  [entry   |-> [streak      |-> IF alert THEN counted - 1 ELSE counted,
                      last_avgRnk |-> avg,
                      last_imp    |-> imp],
         counted |-> counted,
         alert   |-> alert,
         record  |-> [streak |-> counted, avg |-> avg, imp |-> imp]]

\* lines 163-179: one observation of a pair; e is the pair's entry.
\* counted is the counter after lines 168-171, before the alert rule
StepDev(e, dev_data) ==
    LET imp      == dev_data.imp
        avg      == dev_data.avgRnk
        top_like == is_top_like(imp, avg)
        counted  == IF top_like THEN e.streak + 1 ELSE 0
        alert    == counted >= STREAK_THRESHOLD
    IN  [entry   |-> [streak      |-> IF alert THEN 0 ELSE counted,
                      last_avgRnk |-> avg,
                      last_imp    |-> imp],
         counted |-> counted,
         alert   |-> alert,
         record  |-> [streak |-> counted, avg |-> avg, imp |-> imp]]

\* line 152: the keyword's entry, created when the state lacks it
EntryOf(st, kw) == IF kw \in DOMAIN st THEN st[kw] ELSE InitEntry

\* DetectState keeping only the keywords of the summary
DetectState_OnlySummary(st, summ) ==
    [kw \in DOMAIN summ.devs |->
        [dev \in DetectDevs |->
            IF HasDev(summ.devs[kw], dev)
            THEN StepDev(EntryOf(st, kw)[dev], PickDev(summ.devs[kw], dev)).entry
            ELSE EntryOf(st, kw)[dev]]]

\* lines 151-179: the state after the loop over the summary
DetectState(st, summ) ==
    [kw \in DOMAIN st \cup DOMAIN summ.devs |->
        IF kw \in DOMAIN summ.devs
        THEN [dev \in DetectDevs |->
                IF HasDev(summ.devs[kw], dev)
                THEN StepDev(EntryOf(st, kw)[dev], PickDev(summ.devs[kw], dev)).entry
                ELSE EntryOf(st, kw)[dev]]
        ELSE st[kw]]

\* lines 157-177 for one keyword: its alert records, PC before MOBILE
RECURSIVE AlertsOfKw(_, _, _, _)
AlertsOfKw(st, summ, kw, i) ==
    IF i > Len(DETECT_DEVS) THEN <<>>
    ELSE
        LET dev == DETECT_DEVS[i]
            r   == StepDev(EntryOf(st, kw)[dev], PickDev(summ.devs[kw], dev))
        IN  IF HasDev(summ.devs[kw], dev) /\ r.alert
            THEN <<[kw |-> kw, dev |-> dev, streak |-> r.record.streak,
                    avg |-> r.record.avg, imp |-> r.record.imp]>>
                 \o AlertsOfKw(st, summ, kw, i + 1)
            ELSE AlertsOfKw(st, summ, kw, i + 1)

\* lines 149-177: the alerts list after the loop, in the summary's order
RECURSIVE DetectAlerts(_, _, _)
DetectAlerts(st, summ, i) ==
    IF i > Len(summ.keys) THEN <<>>
    ELSE AlertsOfKw(st, summ, summ.keys[i], 1) \o DetectAlerts(st, summ, i + 1)

\* the pairs the loop observes: those with PC or MOBILE data in the summary
Observed(summ) ==
    {p \in (DOMAIN summ.devs) \X DetectDevs : HasDev(summ.devs[p[1]], p[2])}

\* the counter of each observed pair after lines 168-171
DetectCounted(st, summ) ==
    [p \in Observed(summ) |->
        StepDev(EntryOf(st, p[1])[p[2]], PickDev(summ.devs[p[1]], p[2])).counted]

(***************************************************************************)
(* The state: of the runs of the program (main.py, main), of one call of   *)
(* fetch_stats_by_keyword_ids and of one call of summarize_by_keyword.     *)
(***************************************************************************)
VARIABLES
    pc,             \* where the run is: idle (no run), fetch, detect, save, notify,
                    \* exit (the process ends)
    runNo,          \* the runs started so far
    keyword_ids,    \* main's keyword_ids
    id_to_keyword,  \* main's id_to_keyword
    missing,        \* main's missing
    summary,        \* main's summary
    state,          \* main's state, in memory
    alerts,         \* main's alerts
    counted,        \* each observed pair's counter after lines 168-171
    stateFile,      \* the content of state.json
    did,            \* what the run did so far: "stats" (it asked for statistics),
                    \* "save" (it replaced state.json)
    posted,         \* the POSTs the run made to the webhook
    runEnd,         \* how the run ended and where, and how its POST was answered
    epLen,          \* per pair: the top-like observations since its last other one
    epAlerts,       \* per pair: the alerts of these observations
    runTop          \* per pair: the latest runs, one after another, in which
                    \* the pair was top-like (counted up to STREAK_THRESHOLD)

vars == <<pc, runNo, keyword_ids, id_to_keyword, missing, summary, state,
          alerts, counted, stateFile, did, posted, runEnd, epLen, epAlerts, runTop>>

\* the locals of main
locals == <<keyword_ids, id_to_keyword, missing, summary, state, alerts, counted>>

VARIABLES
    fs_pc,          \* begin, call (a request_json call runs), done
    fs_input,       \* the argument keyword_ids
    fs_todo,        \* the batches not yet asked for
    fs_batch,       \* the batch asked for
    fs_breakdown,   \* the running request carries breakdown=pcMblTp
    fs_primary_err, \* what the batch's request with the breakdown raised
    all_rows,       \* all_rows
    fs_requests,    \* the request_json calls made so far: [ids, breakdown, fields]
    fs_ended,       \* how fetch_stats_by_keyword_ids ended: "", returned, raised
    fs_err,         \* the error it raised
    rq              \* the running request_json call

fvars == <<fs_pc, fs_input, fs_todo, fs_batch, fs_breakdown, fs_primary_err,
           all_rows, fs_requests, fs_ended, fs_err, rq>>

VARIABLES
    sm_pc,      \* call, done
    sm_rows,    \* the argument raw_rows
    sm_map,     \* the argument id_to_keyword
    sm_out,     \* the result, with the exact average ranks
    sm_flt      \* the result's average ranks as floats, by <<keyword, device>>

svars == <<sm_pc, sm_rows, sm_map, sm_out, sm_flt>>

VARIABLES
    tl_pc,          \* call, done
    tl_imp,         \* the arguments of a call of is_top_like
    tl_avg_rnk,
    tl_ret,         \* what it returned
    tl_imp2,        \* the arguments of a second call
    tl_avg_rnk2,
    tl_ret2         \* what it returned

tvars == <<tl_pc, tl_imp, tl_avg_rnk, tl_ret, tl_imp2, tl_avg_rnk2, tl_ret2>>

VARIABLES
    wj_pc,          \* call, open, closed, done, killed, raised
    wj_path,        \* the argument path of a call of write_json
    wj_data,        \* the argument data: the document, named by a number
    wj_files,       \* the files on the disk, by <<name, suffix>>
    wj_prev         \* what the target file held when the call began

wvars == <<wj_pc, wj_path, wj_data, wj_files, wj_prev>>

VARIABLES
    nt_pc,          \* call, done
    nt_alerts,      \* main's alerts when line 185 is reached
    nt_url,         \* SLACK_WEBHOOK_URL is set
    nt_posts,       \* the POSTs made to the webhook: the alerts each lists
    nt_raised       \* an exception left send_slack

nvars == <<nt_pc, nt_alerts, nt_url, nt_posts, nt_raised>>

VARIABLES
    rs_pc,          \* call, resolved, stopped, raised, snapshot
    rs_wanted,      \* main's wanted_keywords
    rs_map,         \* main's kw_map
    rs_out,         \* keyword_ids, id_to_keyword and missing after line 114
    rs_snap         \* missing_in_account of the snapshot file, if written

rvars == <<rs_pc, rs_wanted, rs_map, rs_out, rs_snap>>

VARIABLES
    sh_pc,          \* body (a response came), rows (normalised), done
    sh_data,        \* the parsed body request_json returned
    sh_map,         \* id_to_keyword
    sh_all_rows,    \* all_rows
    sh_out          \* what summarize_by_keyword raised, or its result

hvars == <<sh_pc, sh_data, sh_map, sh_all_rows, sh_out>>

VARIABLES
    dt_pc,          \* rows (the statistics came), summary, done
    dt_rows,        \* main's raw_rows
    dt_map,         \* main's id_to_keyword
    dt_loaded,      \* what load_state returns
    dt_summary,     \* main's summary
    dt_state,       \* main's state after the loop of line 151
    dt_alerts       \* main's alerts

dvars == <<dt_pc, dt_rows, dt_map, dt_loaded, dt_summary, dt_state, dt_alerts>>

allvars == <<vars, fvars, svars, tvars, wvars, nvars, rvars, hvars, dvars>>
\* the variables that the steps of a run, of a call of
\* fetch_stats_by_keyword_ids, of summarize_by_keyword, of is_top_like, of
\* write_json, of the notification step and of the resolution step leave
\* alone
notRun == <<fvars, svars, tvars, wvars, nvars, rvars, hvars, dvars>>
notFetch == <<vars, svars, tvars, wvars, nvars, rvars, hvars, dvars>>
notSum == <<vars, fvars, tvars, wvars, nvars, rvars, hvars, dvars>>
notTop == <<vars, fvars, svars, wvars, nvars, rvars, hvars, dvars>>
notWrite == <<vars, fvars, svars, tvars, nvars, rvars, hvars, dvars>>
notNotify == <<vars, fvars, svars, tvars, wvars, rvars, hvars, dvars>>
notResolve == <<vars, fvars, svars, tvars, wvars, nvars, hvars, dvars>>
notShape == <<vars, fvars, svars, tvars, wvars, nvars, rvars, dvars>>
notObserve == <<vars, fvars, svars, tvars, wvars, nvars, rvars, hvars>>

(***************************************************************************)
(* request_json (naver_client.py) and fetch_stats_by_keyword_ids           *)
(* (stats_checker.py).                                                     *)
(*                                                                         *)
(* A response of the server to one attempt is                              *)
(*   [kind, status, text, shape]                                           *)
(* kind "transport" is an attempt that ends in an exception of the         *)
(* requests library (no status); text is the response body as a sequence   *)
(* of tokens; shape is the shape of the parsed body of an answer.          *)
(* An error is [type, status, text, attempt]: the exception's type, the    *)
(* status and body its message is formatted from, and the attempt that     *)
(* raised it.                                                              *)
(***************************************************************************)
HTTP_RETRY == 3
\* HTTP_RETRY_BACKOFF = 1.5, in tenths of a second
HTTP_RETRY_BACKOFF == 15
\* MAX_IDS_PER_CALL, set to 2 in the environment of the modelled runs
MAX_IDS_PER_CALL == 2

\* the longest keyword_ids list given to fetch_stats_by_keyword_ids
MaxIds == 4

NoErr == [type |-> "none", status |-> 0, text |-> <<>>, attempt |-> 0]

Shapes == {"list", "envelope", "other"}

Responses ==
    {[kind |-> "http", status |-> 200, text |-> <<>>, shape |-> sh] : sh \in Shapes}
    \cup
    { [kind |-> "http", status |-> 400, text |-> <<"code", "11001">>, shape |-> "other"],
      [kind |-> "http", status |-> 400, text |-> <<"code", "1018">>, shape |-> "other"],
      [kind |-> "http", status |-> 400,
       text |-> <<"code", "1018", "detail", "11001">>, shape |-> "other"],
      [kind |-> "http", status |-> 429, text |-> <<"code", "429">>, shape |-> "other"],
      [kind |-> "http", status |-> 500, text |-> <<>>, shape |-> "other"],
      [kind |-> "transport", status |-> 0, text |-> <<"timeout">>, shape |-> "other"] }

\* lines 114 and 120 of naver_client.py: RuntimeError(f"HTTP {status} {url}: {body}")
RuntimeError(resp, n) ==
    [type |-> "RuntimeError", status |-> resp.status, text |-> resp.text, attempt |-> n]

\* the exception requests raises
TransportError(resp, n) ==
    [type |-> "Transport", status |-> 0, text |-> resp.text, attempt |-> n]

\* jitter_sleep(HTTP_RETRY_BACKOFF * attempt, 0.6): the event, with its base
SleepEvent(n) ==
    [ev |-> "sleep", n |-> n, status |-> 0, shape |-> "", base |-> HTTP_RETRY_BACKOFF * n]

AttemptEvent(n, resp) ==
    [ev |-> "attempt", n |-> n,
     status |-> IF resp.kind = "http" THEN resp.status ELSE 0,
     shape |-> resp.shape, base |-> 0]

\* the state of one request_json call: the attempt the loop is at, last_err,
\* the events so far, and how the call ended ("" while it runs)
NewCall == [attempt |-> 1, last_err |-> NoErr, log |-> <<>>, ended |-> "", data |-> ""]

\* LoopEnd with one attempt more than HTTP_RETRY
LoopEnd_OneMore(c) ==
    IF c.attempt > HTTP_RETRY + 1 THEN [c EXCEPT !.ended = "raised"] ELSE c

\* line 130: after the loop
LoopEnd(c) ==
    IF c.attempt > HTTP_RETRY THEN [c EXCEPT !.ended = "raised"] ELSE c

\* lines 99-128: one pass of the loop, the server answering resp
Attempt(c, resp) ==
    LET n   == c.attempt
        log == Append(c.log, AttemptEvent(n, resp))
    IN  IF resp.kind = "transport"
        THEN \* lines 124-128
             LoopEnd([c EXCEPT !.attempt = n + 1,
                                !.last_err = TransportError(resp, n),
                                !.log = IF n < HTTP_RETRY
                                        THEN Append(log, SleepEvent(n)) ELSE log])
        ELSE IF resp.status = 429 \/ resp.status >= 500
        THEN \* lines 113-116
             LoopEnd([c EXCEPT !.attempt = n + 1,
                                !.last_err = RuntimeError(resp, n),
                                !.log = Append(log, SleepEvent(n))])
        ELSE IF resp.status >= 400
        THEN \* line 120 raises inside the try: lines 124-128 catch it
             LoopEnd([c EXCEPT !.attempt = n + 1,
                                !.last_err = RuntimeError(resp, n),
                                !.log = IF n < HTTP_RETRY
                                        THEN Append(log, SleepEvent(n)) ELSE log])
        ELSE \* line 122
             [c EXCEPT !.log = log, !.ended = "returned", !.data = resp.shape]

\* the ids of the model and x.startswith("nkw-") on them
StartsWithNkw(x) == x \in {"nkw-1", "nkw-2", "nkw-3", "nkw-4"}

RECURSIVE SelectSeq2(_, _)
SelectSeq2(seq, i) ==
    IF i > Len(seq) THEN <<>>
    ELSE IF StartsWithNkw(seq[i]) THEN <<seq[i]>> \o SelectSeq2(seq, i + 1)
    ELSE SelectSeq2(seq, i + 1)

\* line 22 of stats_checker.py
KeepKeywordIds(ids) == SelectSeq2(ids, 1)

\* chunked with slices of size + 1
RECURSIVE chunked_Oversize(_, _)
chunked_Oversize(lst, size) ==
    IF lst = <<>> THEN <<>>
    ELSE IF Len(lst) <= size + 1 THEN <<lst>>
    ELSE <<SubSeq(lst, 1, size + 1)>>
             \o chunked_Oversize(SubSeq(lst, size + 2, Len(lst)), size)

\* utils.py chunked: [lst[i:i+size] for i in range(0, len(lst), size)]
RECURSIVE chunked(_, _)
chunked(lst, size) ==
    IF lst = <<>> THEN <<>>
    ELSE IF Len(lst) <= size THEN <<lst>>
    ELSE <<SubSeq(lst, 1, size)>> \o chunked(SubSeq(lst, size + 1, Len(lst)), size)

\* "11001" in str(e)
Mentions11001(e) == \E i \in 1..Len(e.text) : e.text[i] = "11001"

\* lines 49-52: the except clause takes the error and goes on to the fallback
TakesFallback(e) == e.type = "RuntimeError" /\ Mentions11001(e)

\* the rows the server answers a request with: one per id, with the device
\* label only when the request has the breakdown
AnswerRows(batch, breakdown) ==
    [i \in 1..Len(batch) |->
        [id |-> batch[i], dev |-> IF breakdown THEN "PC" ELSE "", raw |-> FALSE]]

\* lines 62-73: the rows a parsed body adds to all_rows
Normalized(shape, rows) ==
    IF shape \in {"list", "envelope"} THEN rows
    ELSE <<[id |-> "", dev |-> "", raw |-> TRUE]>>


BaseIds == <<"nkw-1", "grp-9", "nkw-2", "nkw-3", "nkw-4", "nkw-1">>

FetchInputs ==
    {SubSeq(BaseIds, 1, n) : n \in 0..MaxIds} \cup {<<"grp-9">>, <<"nkw-3", "nkw-1">>}

FetchIdle ==
    /\ fs_pc = "begin"
    /\ fs_todo = <<>>
    /\ fs_batch = <<>>
    /\ fs_breakdown = FALSE
    /\ fs_primary_err = NoErr
    /\ all_rows = <<>>
    /\ fs_requests = <<>>
    /\ fs_ended = ""
    /\ fs_err = NoErr
    /\ rq = NewCall

\* lines 36-48: the next batch's request with the breakdown begins, or, with
\* no batch left, line 77 returns
NextBatch(todo) ==
    IF todo = <<>>
    THEN /\ fs_pc' = "done"
         /\ fs_ended' = "returned"
         /\ UNCHANGED <<fs_todo, fs_batch, fs_breakdown, fs_requests, rq>>
    ELSE /\ fs_pc' = "call"
         /\ fs_todo' = Tail(todo)
         /\ fs_batch' = Head(todo)
         /\ fs_breakdown' = TRUE
         /\ fs_requests' = Append(fs_requests,
                [ids |-> Head(todo), breakdown |-> TRUE,
                 fields |-> <<"impCnt", "clkCnt", "avgRnk">>])
         /\ rq' = NewCall
         /\ UNCHANGED fs_ended

\* lines 22-36
FetchBegin ==
    /\ UNCHANGED notFetch
    /\ fs_pc = "begin"
    /\ NextBatch(chunked(KeepKeywordIds(fs_input), MAX_IDS_PER_CALL))
    /\ UNCHANGED <<fs_input, fs_primary_err, all_rows, fs_err>>

\* one attempt of the running request_json call
ReqAttempt ==
    /\ UNCHANGED notFetch
    /\ fs_pc = "call"
    /\ rq.ended = ""
    /\ \E resp \in Responses : rq' = Attempt(rq, resp)
    /\ UNCHANGED <<fs_pc, fs_input, fs_todo, fs_batch, fs_breakdown,
                   fs_primary_err, all_rows, fs_requests, fs_ended, fs_err>>

\* lines 62-75: the call returned; its rows join all_rows
FetchBatchDone ==
    /\ UNCHANGED notFetch
    /\ fs_pc = "call"
    /\ rq.ended = "returned"
    /\ all_rows' = all_rows \o Normalized(rq.data, AnswerRows(fs_batch, fs_breakdown))
    /\ NextBatch(fs_todo)
    /\ UNCHANGED <<fs_input, fs_primary_err, fs_err>>

\* lines 49-60: the request with the breakdown raised and the fallback begins
FetchFallback ==
    /\ UNCHANGED notFetch
    /\ fs_pc = "call"
    /\ rq.ended = "raised"
    /\ fs_breakdown
    /\ TakesFallback(rq.last_err)
    /\ fs_primary_err' = rq.last_err
    /\ fs_breakdown' = FALSE
    /\ fs_requests' = Append(fs_requests,
            [ids |-> fs_batch, breakdown |-> FALSE, fields |-> <<"impCnt", "avgRnk">>])
    /\ rq' = NewCall
    /\ UNCHANGED <<fs_pc, fs_input, fs_todo, fs_batch, all_rows, fs_ended, fs_err>>

\* lines 48-52 and 60: the error leaves fetch_stats_by_keyword_ids
FetchRaise ==
    /\ UNCHANGED notFetch
    /\ fs_pc = "call"
    /\ rq.ended = "raised"
    /\ ~(fs_breakdown /\ TakesFallback(rq.last_err))
    /\ fs_pc' = "done"
    /\ fs_ended' = "raised"
    /\ fs_err' = rq.last_err
    /\ fs_primary_err' = IF fs_breakdown THEN rq.last_err ELSE fs_primary_err
    /\ UNCHANGED <<fs_input, fs_todo, fs_batch, fs_breakdown, all_rows,
                   fs_requests, rq>>

(***************************************************************************)
(* summarize_by_keyword applied to the rows and the map it is given.       *)
(***************************************************************************)
NoSummary == [keys |-> <<>>, devs |-> <<>>]


\* the longest raw_rows list
MaxSumRows == 3

SumRow(id, dev, imp, clk, has, rnk) ==
    [id |-> id, dev |-> dev, impCnt |-> imp, clkCnt |-> clk,
     hasRnk |-> has, avgRnk |-> rnk]

SumRows ==
    { SumRow("nkw-1", "PC", 20, 1, TRUE, 100),
      SumRow("nkw-2", "pc", 77, 0, TRUE, 200),
      SumRow("nkw-1", "MOBILE", 0, 0, TRUE, 135),
      SumRow("nkw-2", "Mobile", 20, 1, FALSE, 0),
      SumRow("nkw-1", "MOBILE", 20, 2, TRUE, 200),
      SumRow("nkw-1", "KO_MOBILE", 77, 1, TRUE, 135),
      SumRow("nkw-3", "", 20, 1, TRUE, 100),
      SumRow("nkw-3", "tablet", 20, 0, TRUE, 200),
      SumRow("nkw-3", "PC", 77, 1, TRUE, 135),
      SumRow("nkw-3", "pc", 3, 0, TRUE, 135),
      SumRow("nkw-4", "PC", 20, 1, TRUE, 100),
      SumRow("", "PC", 20, 1, TRUE, 100) }

SumRowLists == UNION {[1..n -> SumRows] : n \in 0..MaxSumRows}

SumMaps ==
    { [x \in {"nkw-1", "nkw-2", "nkw-3"} |-> IF x = "nkw-3" THEN "k2" ELSE "k1"],
      [x \in {"nkw-1"} |-> "k1"] }

SumIdle ==
    /\ sm_pc = "call"
    /\ sm_out = NoSummary
    /\ sm_flt = <<>>

\* stats_checker.py lines 79-137
Summarize ==
    /\ UNCHANGED notSum
    /\ sm_pc = "call"
    /\ sm_out' = summarize_by_keyword(sm_rows, sm_map)
    /\ sm_flt' = FloatAverages(sm_rows, sm_map)
    /\ sm_pc' = "done"
    /\ UNCHANGED <<sm_rows, sm_map>>

(***************************************************************************)
(* is_top_like applied to two pairs of arguments.                          *)
(***************************************************************************)
\* how far from MIN_IMP and from RANK_THRESHOLD the arguments go
TopDelta == 5

TopImps == {0} \cup ((MIN_IMP - TopDelta)..(MIN_IMP + TopDelta))

\* None, the ranks around the threshold in steps of 0.01, and two ranks
\* that are 0.0001 below and above it
TopRanks ==
    {None}
    \cup {Rank(h) : h \in (RANK_THRESHOLD - TopDelta)..(RANK_THRESHOLD + TopDelta)}
    \cup {Quot(RANK_THRESHOLD * 100 - 1, 100), Quot(RANK_THRESHOLD * 100 + 1, 100)}

TopIdle ==
    /\ tl_pc = "call"
    /\ tl_ret = FALSE
    /\ tl_ret2 = FALSE

\* main.py lines 14-19, for both pairs of arguments
TopLike ==
    /\ UNCHANGED notTop
    /\ tl_pc = "call"
    /\ tl_ret' = is_top_like(tl_imp, tl_avg_rnk)
    /\ tl_ret2' = is_top_like(tl_imp2, tl_avg_rnk2)
    /\ tl_pc' = "done"
    /\ UNCHANGED <<tl_imp, tl_avg_rnk, tl_imp2, tl_avg_rnk2>>

(***************************************************************************)
(* write_json (utils.py), which save_state calls for state.json and        *)
(* build_keyword_map for cache/keyword_map.json.  A file is <<name,        *)
(* suffix>>; what a file holds is [doc, n]: the first n chunks of the      *)
(* text of the document doc, which is whole with WriteChunks chunks.       *)
(* The process may be killed, and every system call may fail, at any step; *)
(* a later run calls write_json again, with another document.              *)
(***************************************************************************)
\* the chunks in which the text of a document reaches the file
WriteChunks == 2
\* the calls of write_json, one after another
MaxWrites == 3

WritePaths == {"state.json", "cache/keyword_map.json"}

Absent == [doc |-> 0, n |-> 0]
Whole(doc) == [doc |-> doc, n |-> WriteChunks]

Files == WritePaths \X {"", ".tmp"}
NoFiles == [f \in Files |-> Absent]

\* TmpPath writing in place
TmpPath_InPlace(path) == <<path, "">>

\* line 41: tmp = path + ".tmp"
TmpPath(path) == <<path, ".tmp">>

Target(path) == <<path, "">>

WriteIdle == wj_pc = "call"

\* line 42: open(tmp, "w") creates the file or empties it
WjOpen ==
    /\ UNCHANGED notWrite
    /\ wj_pc = "call"
    /\ wj_files' = [wj_files EXCEPT ![TmpPath(wj_path)] = [doc |-> wj_data, n |-> 0]]
    /\ wj_pc' = "open"
    /\ UNCHANGED <<wj_path, wj_data, wj_prev>>

\* line 43: json.dump: one more chunk of the text reaches the file
WjDump ==
    /\ UNCHANGED notWrite
    /\ wj_pc = "open"
    /\ wj_files[TmpPath(wj_path)].n < WriteChunks
    /\ wj_files' = [wj_files EXCEPT ![TmpPath(wj_path)].n = @ + 1]
    /\ UNCHANGED <<wj_pc, wj_path, wj_data, wj_prev>>

\* lines 42-43: the with block ends, the file is closed
WjClose ==
    /\ UNCHANGED notWrite
    /\ wj_pc = "open"
    /\ wj_files[TmpPath(wj_path)].n = WriteChunks
    /\ wj_pc' = "closed"
    /\ UNCHANGED <<wj_path, wj_data, wj_files, wj_prev>>

\* line 44: os.replace(tmp, path)
WjReplace ==
    /\ UNCHANGED notWrite
    /\ wj_pc = "closed"
    /\ wj_files' = [f \in Files |->
                       IF f = Target(wj_path) THEN wj_files[TmpPath(wj_path)]
                       ELSE IF f = TmpPath(wj_path) THEN Absent
                       ELSE wj_files[f]]
    /\ wj_pc' = "done"
    /\ UNCHANGED <<wj_path, wj_data, wj_prev>>

\* the process is killed before line 42, within the with block, or before
\* line 44
WjKilled ==
    /\ UNCHANGED notWrite
    /\ wj_pc \in {"call", "open", "closed"}
    /\ wj_pc' = "killed"
    /\ UNCHANGED <<wj_path, wj_data, wj_files, wj_prev>>

\* open, json.dump (a write, or data that is not serializable) or
\* os.replace raises: the exception leaves write_json
WjRaises ==
    /\ UNCHANGED notWrite
    /\ wj_pc \in {"call", "open", "closed"}
    /\ wj_pc' = "raised"
    /\ UNCHANGED <<wj_path, wj_data, wj_files, wj_prev>>

\* the next call of write_json, by a later process
WjCall ==
    /\ UNCHANGED notWrite
    /\ wj_pc \in {"done", "killed", "raised"}
    /\ wj_data < MaxWrites
    /\ wj_pc' = "call"
    /\ wj_data' = wj_data + 1
    /\ wj_path' \in WritePaths
    /\ wj_prev' = wj_files[Target(wj_path')]
    /\ UNCHANGED wj_files

(***************************************************************************)
(* The notification: step 8 of main (main.py lines 185-193) and send_slack *)
(* (slack_notify.py).  A message is the sequence of the alerts it lists,   *)
(* one line each after the title line.                                     *)
(***************************************************************************)
\* main.py line 187: alerts[:50]
AlertCap == 50

\* the longest alerts list of the notification step on its own
MaxAlerts == 52

\* how the webhook answers a POST: with a status below 400, with an error
\* status, or not at all (requests.post raises: no connection, a timeout)
PostOutcomes == {"ok", "error_status", "exception"}

\* MessageLines without the cap
MessageLines_All(alert_list) == alert_list

\* main.py lines 186-189: the alerts the message lists
MessageLines(alert_list) ==
    SubSeq(alert_list, 1, IF Len(alert_list) < AlertCap THEN Len(alert_list) ELSE AlertCap)

\* slack_notify.py lines 4-7: the POSTs made, and whether requests.post
\* raised (its exception leaves send_slack; the response is not looked at)
send_slack(url_set, text, outcome) ==
    IF ~url_set THEN [posts |-> <<>>, raised |-> FALSE]
    ELSE [posts |-> <<text>>, raised |-> outcome = "exception"]

\* main.py lines 185-193
NotifyAlerts(alert_list, url_set, outcome) ==
    IF alert_list # <<>> THEN send_slack(url_set, MessageLines(alert_list), outcome)
    ELSE [posts |-> <<>>, raised |-> FALSE]

\* n alert records, of n \div 2 keywords named by numbers
AlertList(n) ==
    [i \in 1..n |-> [kw |-> (i + 1) \div 2,
                     dev |-> IF i % 2 = 1 THEN "PC" ELSE "MOBILE",
                     streak |-> STREAK_THRESHOLD, avg |-> Rank(100), imp |-> MIN_IMP]]

NotifyIdle ==
    /\ nt_pc = "call"
    /\ nt_posts = <<>>
    /\ nt_raised = FALSE

\* main.py lines 185-193 on their own
NotifyStep ==
    /\ UNCHANGED notNotify
    /\ nt_pc = "call"
    /\ \E outcome \in PostOutcomes :
          LET r == NotifyAlerts(nt_alerts, nt_url, outcome)
          IN  /\ nt_posts' = r.posts
              /\ nt_raised' = r.raised
    /\ nt_pc' = "done"
    /\ UNCHANGED <<nt_alerts, nt_url>>

(***************************************************************************)
(* The runs of the program (main.py, main).  Each run is one process:      *)
(* its locals start empty, the state file is all it shares with the run    *)
(* before it.                                                              *)
(***************************************************************************)

Pairs == Keywords \X DetectDevs

\* keywords.txt, as load_keywords_txt returns it
WantedMenu == {<<"k1", "k2">>, <<"k1">>}

\* the account's keyword map: keyword text -> the ids of its entries
MapMenu ==
    { [k \in {"k1", "k2"} |-> IF k = "k1" THEN <<"nkw-1", "nkw-2">> ELSE <<"nkw-3">>],
      [k \in {"k1"} |-> <<"nkw-1">>],
      [k \in {"k2"} |-> <<>>],
      <<>> }

\* Resolve with the first id only of each keyword
RECURSIVE Resolve_FirstIdOnly(_, _, _)
Resolve_FirstIdOnly(wanted_keywords, kw_map, acc) ==
    IF wanted_keywords = <<>> THEN acc
    ELSE
        LET kw      == Head(wanted_keywords)
            entries == IF kw \in DOMAIN kw_map THEN kw_map[kw] ELSE <<>>
        IN  IF entries = <<>>
            THEN Resolve_FirstIdOnly(Tail(wanted_keywords), kw_map,
                         [acc EXCEPT !.missing = Append(@, kw)])
            ELSE Resolve_FirstIdOnly(Tail(wanted_keywords), kw_map,
                         [keyword_ids   |-> Append(acc.keyword_ids, entries[1]),
                          id_to_keyword |->
                              [x \in DOMAIN acc.id_to_keyword \cup {entries[1]} |->
                                  IF x = entries[1] THEN kw ELSE acc.id_to_keyword[x]],
                          missing       |-> acc.missing])

\* lines 102-114: keyword_ids, id_to_keyword and missing after the loop
RECURSIVE Resolve(_, _, _)
Resolve(wanted_keywords, kw_map, acc) ==
    IF wanted_keywords = <<>> THEN acc
    ELSE
        LET kw      == Head(wanted_keywords)
            entries == IF kw \in DOMAIN kw_map THEN kw_map[kw] ELSE <<>>
            ids     == {entries[i] : i \in 1..Len(entries)}
        IN  IF entries = <<>>
            THEN Resolve(Tail(wanted_keywords), kw_map,
                         [acc EXCEPT !.missing = Append(@, kw)])
            ELSE Resolve(Tail(wanted_keywords), kw_map,
                         [keyword_ids   |-> acc.keyword_ids \o entries,
                          id_to_keyword |-> [x \in DOMAIN acc.id_to_keyword \cup ids |->
                                               IF x \in ids THEN kw
                                               ELSE acc.id_to_keyword[x]],
                          missing       |-> acc.missing])

\* NoIdsToCheck never stopping the run
NoIdsToCheck_Never(ids) == FALSE

\* line 119: if not keyword_ids
NoIdsToCheck(ids) == ids = <<>>

\* lines 102-104
NothingResolved == [keyword_ids |-> <<>>, id_to_keyword |-> <<>>, missing |-> <<>>]

\* the resolution step on its own: the longest wanted_keywords list
MaxWanted == 3

ResKeywords == {"k1", "k2", "k3"}

\* the lists load_keywords_txt returns: no keyword twice
ResWanted ==
    {w \in UNION {[1..n -> ResKeywords] : n \in 0..MaxWanted} :
        \A i, j \in 1..Len(w) : i # j => w[i] # w[j]}

\* the entries the account may have for a keyword: none, one or two ids
ResEntries(kw) ==
    CASE kw = "k1" -> {<<>>, <<"nkw-1">>, <<"nkw-1", "nkw-2">>}
      [] kw = "k2" -> {<<>>, <<"nkw-3">>, <<"nkw-3", "nkw-4">>}
      [] OTHER     -> {<<>>, <<"nkw-5">>, <<"nkw-5", "nkw-6">>}

\* the account's keyword maps, with or without a key for each keyword
ResMaps ==
    UNION {{m \in [D -> UNION {ResEntries(kw) : kw \in ResKeywords}] :
               \A kw \in D : m[kw] \in ResEntries(kw)} : D \in SUBSET ResKeywords}

\* no snapshot file yet
NoSnapshot == [written |-> FALSE, missing_in_account |-> <<>>]

ResolveIdle ==
    /\ rs_pc = "call"
    /\ rs_out = NothingResolved
    /\ rs_snap = NoSnapshot

\* main.py lines 102-114
ResolveStep ==
    /\ UNCHANGED notResolve
    /\ rs_pc = "call"
    /\ rs_out' = Resolve(rs_wanted, rs_map, NothingResolved)
    /\ rs_pc' = "resolved"
    /\ UNCHANGED <<rs_wanted, rs_map, rs_snap>>

\* lines 119-121: nothing to check, main returns
ResolveStop ==
    /\ UNCHANGED notResolve
    /\ rs_pc = "resolved"
    /\ NoIdsToCheck(rs_out.keyword_ids)
    /\ rs_pc' = "stopped"
    /\ UNCHANGED <<rs_wanted, rs_map, rs_out, rs_snap>>

\* line 126: fetch_stats_by_keyword_ids raises and the exception leaves main
ResolveFetchFails ==
    /\ UNCHANGED notResolve
    /\ rs_pc = "resolved"
    /\ ~NoIdsToCheck(rs_out.keyword_ids)
    /\ rs_pc' = "raised"
    /\ UNCHANGED <<rs_wanted, rs_map, rs_out, rs_snap>>

\* lines 126-141: the statistics are fetched and write_rank_snapshot writes
\* missing as missing_in_account (line 53)
ResolveSnapshot ==
    /\ UNCHANGED notResolve
    /\ rs_pc = "resolved"
    /\ ~NoIdsToCheck(rs_out.keyword_ids)
    /\ rs_snap' = [written |-> TRUE, missing_in_account |-> rs_out.missing]
    /\ rs_pc' = "snapshot"
    /\ UNCHANGED <<rs_wanted, rs_map, rs_out>>

(***************************************************************************)
(* One response of /stats, normalised and summarized: lines 62-73 and      *)
(* 93-137 of stats_checker.py on rows of any content.                      *)
(***************************************************************************)
\* the longest list of rows in a body
MaxRawRows == 2

RawRows ==
    { RawRow("dict", Str("nkw-1"), Str("PC"), Num(20), Num(1), Num(135)),
      RawRow("dict", Str("nkw-2"), Str("Mobile"), Num(77), NoField, Num(200)),
      RawRow("dict", Str("nkw-1"), Str("PC"), NumStr("12", 12), Num(0), NumStr("1.2", 120)),
      RawRow("dict", Str("nkw-1"), NoField, Num(3), Num(0), Str("")),
      RawRow("dict", NoField, Str("PC"), Num(20), Num(1), Num(100)),
      RawRow("dict", Str("nkw-9"), Str("PC"), Str("n/a"), Num(1), Num(100)),
      RawRow("dict", Num(7), Str("PC"), Num(20), Num(1), Num(100)),
      RawRow("str", NoField, NoField, NoField, NoField, NoField),
      RawRow("null", NoField, NoField, NoField, NoField, NoField),
      RawRow("dict", Str("nkw-1"), Str("PC"), Str("n/a"), Num(1), Num(100)),
      RawRow("dict", Str("nkw-1"), Str("PC"), Num(20), Num(1), Str("-")),
      RawRow("dict", Str("nkw-1"), Num(1), Num(20), Num(1), Num(100)),
      RawRow("dict", Val("list", FALSE, 1, ""), Str("PC"), Num(20), Num(1), Num(100)),
      RawRow("dict", Str("nkw-1"), Str("PC"), Val("list", FALSE, 1, ""), Num(1), Num(100)) }

RawRowLists == UNION {[1..n -> RawRows] : n \in 0..MaxRawRows}

\* the parsed bodies _safe_parse_response may return
Bodies ==
    {[shape |-> sh, rows |-> r] : sh \in {"list", "envelope"}, r \in RawRowLists}
    \cup {[shape |-> sh, rows |-> <<>>] : sh \in {"dict", "text", "null"}}

NotSummarized == [raised |-> "", out |-> [keys |-> <<>>, devs |-> <<>>]]

ShapeIdle ==
    /\ sh_pc = "body"
    /\ sh_all_rows = <<>>
    /\ sh_out = NotSummarized

\* stats_checker.py lines 62-73
ShapeNormalize ==
    /\ UNCHANGED notShape
    /\ sh_pc = "body"
    /\ sh_all_rows' = sh_all_rows \o NormalizedBody(sh_data)
    /\ sh_pc' = "rows"
    /\ UNCHANGED <<sh_data, sh_map, sh_out>>

\* main.py line 130: summarize_by_keyword(raw_rows, id_to_keyword)
ShapeSummarize ==
    /\ UNCHANGED notShape
    /\ sh_pc = "rows"
    /\ sh_out' = SummarizeRows(sh_all_rows, sh_map)
    /\ sh_pc' = "done"
    /\ UNCHANGED <<sh_data, sh_map, sh_all_rows>>

\* the rows /stats answers with in the run-level specification: at most one
\* row of nkw-1 for PC, one of nkw-1 for MOBILE and one of nkw-3, which is
\* for PC or carries no device label
RunRow(id, dev, imp, rnk) ==
    [id |-> id, dev |-> dev, impCnt |-> imp, clkCnt |-> 1,
     hasRnk |-> TRUE, avgRnk |-> rnk]

Opt(rows) == {<<>>} \cup {<<r>> : r \in rows}

RunRowLists ==
    { a \o b \o c :
        a \in Opt({RunRow("nkw-1", "PC", 50, 120), RunRow("nkw-1", "PC", 40, 110),
                   RunRow("nkw-1", "PC", 40, 500)}),
        b \in Opt({RunRow("nkw-1", "MOBILE", 50, 120), RunRow("nkw-1", "MOBILE", 10, 100)}),
        c \in Opt({RunRow("nkw-3", "PC", 50, 120), RunRow("nkw-3", "", 50, 120)}) }

(***************************************************************************)
(* The rows of one run summarized and the detector applied to the summary  *)
(* and to a loaded state: main.py lines 130 and 146-179.                   *)
(***************************************************************************)
\* an entry of state.json with the counters a and b for PC and MOBILE
Entry(a, b) ==
    [dev \in DetectDevs |->
        [streak      |-> IF dev = "PC" THEN a ELSE b,
         last_avgRnk |-> IF (IF dev = "PC" THEN a ELSE b) > 0 THEN Rank(120) ELSE None,
         last_imp    |-> IF (IF dev = "PC" THEN a ELSE b) > 0 THEN 50 ELSE 0]]

\* the states load_state may return: none, or what earlier runs saved, with
\* counters below STREAK_THRESHOLD
LoadedStates ==
    {<<>>}
    \cup {[kw \in {"k1"} |-> Entry(a, b)] : a, b \in 0..(STREAK_THRESHOLD - 1)}
    \cup {[kw \in {"k1", "k2"} |-> IF kw = "k1" THEN Entry(a, 0) ELSE Entry(b, b)] :
             a, b \in 0..(STREAK_THRESHOLD - 1)}

ObserveMaps ==
    { [x \in {"nkw-1", "nkw-3"} |-> IF x = "nkw-3" THEN "k2" ELSE "k1"],
      [x \in {"nkw-1"} |-> "k1"] }

ObserveIdle ==
    /\ dt_pc = "rows"
    /\ dt_summary = NoSummary
    /\ dt_state = <<>>
    /\ dt_alerts = <<>>

\* main.py line 130
ObserveSummarize ==
    /\ UNCHANGED notObserve
    /\ dt_pc = "rows"
    /\ dt_summary' = summarize_by_keyword(dt_rows, dt_map)
    /\ dt_pc' = "summary"
    /\ UNCHANGED <<dt_rows, dt_map, dt_loaded, dt_state, dt_alerts>>

\* main.py lines 146-179
ObserveDetect ==
    /\ UNCHANGED notObserve
    /\ dt_pc = "summary"
    /\ dt_state' = DetectState(dt_loaded, dt_summary)
    /\ dt_alerts' = DetectAlerts(dt_loaded, dt_summary, 1)
    /\ dt_pc' = "done"
    /\ UNCHANGED <<dt_rows, dt_map, dt_loaded, dt_summary>>

\* no run has ended
NoEnd == [how |-> "", at |-> "", post |-> "none"]

RunIdle ==
    /\ pc = "idle"
    /\ runNo = 0
    /\ keyword_ids = <<>>
    /\ id_to_keyword = <<>>
    /\ missing = <<>>
    /\ summary = NoSummary
    /\ state = <<>>
    /\ alerts = <<>>
    /\ counted = <<>>
    /\ stateFile = <<>>
    /\ did = {}
    /\ posted = <<>>
    /\ runEnd = NoEnd
    /\ epLen = [p \in Pairs |-> 0]
    /\ epAlerts = [p \in Pairs |-> 0]
    /\ runTop = [p \in Pairs |-> 0]

\* no call of fetch_stats_by_keyword_ids, of summarize_by_keyword, of
\* is_top_like on their own
FetchQuiet == FetchIdle /\ fs_input = <<>>
SumQuiet == SumIdle /\ sm_rows = <<>> /\ sm_map = <<>>
TopQuiet ==
    /\ TopIdle
    /\ tl_imp = 0 /\ tl_avg_rnk = None
    /\ tl_imp2 = 0 /\ tl_avg_rnk2 = None

WriteQuiet ==
    /\ WriteIdle
    /\ wj_path = "state.json"
    /\ wj_data = 1
    /\ wj_files = NoFiles
    /\ wj_prev = Absent

NotifyQuiet ==
    /\ NotifyIdle
    /\ nt_alerts = <<>>
    /\ nt_url = FALSE

ResolveQuiet ==
    /\ ResolveIdle
    /\ rs_wanted = <<>>
    /\ rs_map = <<>>

ShapeQuiet ==
    /\ ShapeIdle
    /\ sh_data = NoBody
    /\ sh_map = <<>>

ObserveQuiet ==
    /\ ObserveIdle
    /\ dt_rows = <<>>
    /\ dt_map = <<>>
    /\ dt_loaded = <<>>

\* no run, and no call on its own but the one named
Quiet(but) ==
    /\ RunIdle
    /\ IF but = "fetch" THEN TRUE ELSE FetchQuiet
    /\ IF but = "summarize" THEN TRUE ELSE SumQuiet
    /\ IF but = "is_top_like" THEN TRUE ELSE TopQuiet
    /\ IF but = "write_json" THEN TRUE ELSE WriteQuiet
    /\ IF but = "notify" THEN TRUE ELSE NotifyQuiet
    /\ IF but = "resolve" THEN TRUE ELSE ResolveQuiet
    /\ IF but = "shape" THEN TRUE ELSE ShapeQuiet
    /\ IF but = "observe" THEN TRUE ELSE ObserveQuiet

\* no state.json yet, no run started
Init == Quiet("")

\* a run ends: how is returned (main returns at its end), stopped (main
\* returns at line 121) or raised (an exception leaves main); post is how
\* the run's POST was answered, none when it made no POST
Ended(how, at, post) == [how |-> how, at |-> at, post |-> post]

\* EndEarly with state.json replaced by the state in memory
EndEarly_SavesState(how, at) ==
    /\ pc' = "exit"
    /\ runEnd' = Ended(how, at, "none")
    /\ runTop' = [p \in Pairs |-> 0]
    /\ stateFile' = state
    /\ UNCHANGED <<posted, epLen, epAlerts, notRun>>

\* a run ends before line 182: no pair was observed by a completed run
EndEarly(how, at) ==
    /\ pc' = "exit"
    /\ runEnd' = Ended(how, at, "none")
    /\ runTop' = [p \in Pairs |-> 0]
    /\ UNCHANGED <<stateFile, posted, epLen, epAlerts, notRun>>

\* lines 93-123
RunResolve ==
    /\ pc = "idle"
    /\ runNo < MaxRuns
    /\ runNo' = runNo + 1
    /\ \E wanted_keywords \in WantedMenu, kw_map \in MapMenu :
         LET r == Resolve(wanted_keywords, kw_map, NothingResolved)
         IN  /\ keyword_ids' = r.keyword_ids
             /\ id_to_keyword' = r.id_to_keyword
             /\ missing' = r.missing
             /\ IF NoIdsToCheck(r.keyword_ids)
                THEN EndEarly("stopped", "resolve")
                ELSE /\ pc' = "fetch"
                     /\ UNCHANGED <<stateFile, posted, runEnd, epLen, epAlerts,
                                    runTop, notRun>>
    /\ UNCHANGED <<summary, state, alerts, counted, did>>

\* line 93 or 97 raises: keywords.txt cannot be read, a listing request
\* fails, or the cache directory or the cache file cannot be written
\* (keyword_map.py lines 59 and 104)
RunListingFails ==
    /\ pc = "idle"
    /\ runNo < MaxRuns
    /\ runNo' = runNo + 1
    /\ \E at \in {"keywords", "listing", "cache_write"} : EndEarly("raised", at)
    /\ UNCHANGED <<locals, did>>

\* lines 126-130
RunFetch ==
    /\ pc = "fetch"
    /\ \E rows \in RunRowLists :
         summary' = summarize_by_keyword(rows, id_to_keyword)
    /\ pc' = "detect"
    /\ did' = did \cup {"stats"}
    /\ UNCHANGED <<runNo, keyword_ids, id_to_keyword, missing, state, alerts,
                   counted, stateFile, posted, runEnd, epLen, epAlerts, runTop,
                   notRun>>

\* line 126: the statistics request of the first batch raises, or that of a
\* later batch (the rows of the batches before it are lost with all_rows);
\* or line 135: the snapshot files cannot be written
RunFetchFails ==
    /\ pc = "fetch"
    /\ \E at \in {"fetch", "fetch_later_batch", "snapshot"} : EndEarly("raised", at)
    /\ did' = did \cup {"stats"}
    /\ UNCHANGED <<runNo, locals>>

\* lines 146-179
RunDetect ==
    /\ pc = "detect"
    /\ state' = DetectState(stateFile, summary)
    /\ alerts' = DetectAlerts(stateFile, summary, 1)
    /\ counted' = DetectCounted(stateFile, summary)
    /\ pc' = "save"
    /\ UNCHANGED <<runNo, keyword_ids, id_to_keyword, missing, summary,
                   stateFile, did, posted, runEnd, epLen, epAlerts, runTop, notRun>>

\* the pair was observed top-like by the run
TopNow(p) ==
    /\ p \in Observed(summary)
    /\ LET d == PickDev(summary.devs[p[1]], p[2]) IN is_top_like(d.imp, d.avgRnk)

Alerted(p) ==
    \E i \in 1..Len(alerts) : alerts[i].kw = p[1] /\ alerts[i].dev = p[2]

\* line 182
RunSave ==
    /\ pc = "save"
    /\ stateFile' = state
    /\ pc' = "notify"
    /\ did' = did \cup {"save"}
    /\ epLen' = [p \in Pairs |->
                   IF p \notin Observed(summary) THEN epLen[p]
                   ELSE IF TopNow(p) THEN epLen[p] + 1 ELSE 0]
    /\ epAlerts' = [p \in Pairs |->
                   IF p \notin Observed(summary) THEN epAlerts[p]
                   ELSE IF ~TopNow(p) THEN 0
                   ELSE IF Alerted(p) THEN epAlerts[p] + 1 ELSE epAlerts[p]]
    /\ runTop' = [p \in Pairs |->
                   IF ~TopNow(p) THEN 0
                   ELSE IF runTop[p] < STREAK_THRESHOLD THEN runTop[p] + 1
                   ELSE runTop[p]]
    /\ UNCHANGED <<runNo, keyword_ids, id_to_keyword, missing, summary, state,
                   alerts, counted, posted, runEnd, notRun>>

\* line 182: write_json raises (utils.py lines 42-44 have no handler, nor
\* has save_state, nor main); state.json is as it was
RunSaveFails ==
    /\ pc = "save"
    /\ EndEarly("raised", "save_state")
    /\ UNCHANGED <<runNo, locals, did>>

\* lines 185-193, with SLACK_WEBHOOK_URL set or not; an exception of
\* requests.post leaves send_slack and main
RunNotify ==
    /\ pc = "notify"
    /\ \E url_set \in BOOLEAN, outcome \in PostOutcomes :
         LET r == NotifyAlerts(alerts, url_set, outcome)
         IN  /\ posted' = r.posts
             /\ runEnd' = Ended(IF r.raised THEN "raised" ELSE "returned", "notify",
                                IF r.posts = <<>> THEN "none" ELSE outcome)
    /\ pc' = "exit"
    /\ UNCHANGED <<runNo, locals, stateFile, did, epLen, epAlerts, runTop, notRun>>

\* the process ends: nothing of its memory is left
RunExit ==
    /\ pc = "exit"
    /\ pc' = "idle"
    /\ keyword_ids' = <<>>
    /\ id_to_keyword' = <<>>
    /\ missing' = <<>>
    /\ summary' = NoSummary
    /\ state' = <<>>
    /\ alerts' = <<>>
    /\ counted' = <<>>
    /\ did' = {}
    /\ posted' = <<>>
    /\ runEnd' = NoEnd
    /\ UNCHANGED <<runNo, stateFile, epLen, epAlerts, runTop, notRun>>

Next ==
    \/ RunResolve
    \/ RunListingFails
    \/ RunFetch
    \/ RunFetchFails
    \/ RunDetect
    \/ RunSave
    \/ RunSaveFails
    \/ RunNotify
    \/ RunExit

Spec == Init /\ [][Next]_allvars

\* one call of fetch_stats_by_keyword_ids, on any of the inputs
InitFetch ==
    /\ Quiet("fetch")
    /\ FetchIdle /\ fs_input \in FetchInputs

NextFetch ==
    \/ FetchBegin
    \/ ReqAttempt
    \/ FetchBatchDone
    \/ FetchFallback
    \/ FetchRaise

SpecFetch == InitFetch /\ [][NextFetch]_allvars

\* one call of summarize_by_keyword, on any of the inputs
InitSum ==
    /\ Quiet("summarize")
    /\ SumIdle /\ sm_rows \in SumRowLists /\ sm_map \in SumMaps

NextSum == Summarize

SpecSum == InitSum /\ [][NextSum]_allvars

\* two calls of is_top_like, on any of the arguments
InitTop ==
    /\ Quiet("is_top_like")
    /\ TopIdle
    /\ tl_imp \in TopImps /\ tl_avg_rnk \in TopRanks
    /\ tl_imp2 \in TopImps /\ tl_avg_rnk2 \in TopRanks

NextTop == TopLike

SpecTop == InitTop /\ [][NextTop]_allvars

\* the calls of write_json for the two files, from a disk without them
InitWrite ==
    /\ Quiet("write_json")
    /\ WriteIdle
    /\ wj_path \in WritePaths
    /\ wj_data = 1
    /\ wj_files = NoFiles
    /\ wj_prev = Absent

NextWrite ==
    \/ WjCall
    \/ WjOpen
    \/ WjDump
    \/ WjClose
    \/ WjReplace
    \/ WjKilled
    \/ WjRaises

SpecWrite == InitWrite /\ [][NextWrite]_allvars

\* the notification step, on any alerts list and with or without a webhook
InitNotify ==
    /\ Quiet("notify")
    /\ NotifyIdle
    /\ nt_alerts \in {AlertList(n) : n \in 0..MaxAlerts}
    /\ nt_url \in BOOLEAN

NextNotify == NotifyStep

SpecNotify == InitNotify /\ [][NextNotify]_allvars

\* the resolution step and the snapshot, on any wanted list and any account
\* map
InitResolve ==
    /\ Quiet("resolve")
    /\ ResolveIdle
    /\ rs_wanted \in ResWanted
    /\ rs_map \in ResMaps

NextResolve ==
    \/ ResolveStep
    \/ ResolveStop
    \/ ResolveFetchFails
    \/ ResolveSnapshot

SpecResolve == InitResolve /\ [][NextResolve]_allvars

\* one response, normalised and summarized, for any body
InitShape ==
    /\ Quiet("shape")
    /\ ShapeIdle
    /\ sh_data \in Bodies
    /\ sh_map = [x \in {"nkw-1", "nkw-2"} |-> "k1"]

NextShape ==
    \/ ShapeNormalize
    \/ ShapeSummarize

SpecShape == InitShape /\ [][NextShape]_allvars

\* the rows of a run summarized and observed, for any rows and loaded state
InitObserve ==
    /\ Quiet("observe")
    /\ ObserveIdle
    /\ dt_rows \in RunRowLists
    /\ dt_map \in ObserveMaps
    /\ dt_loaded \in LoadedStates

NextObserve ==
    \/ ObserveSummarize
    \/ ObserveDetect

SpecObserve == InitObserve /\ [][NextObserve]_allvars

(***************************************************************************)
(* The claims about the streak detector, under Spec.                       *)
(***************************************************************************)
\* the pair has PC or MOBILE data in the run's summary
HasData(p) ==
    /\ p[1] \in DOMAIN summary.devs
    /\ p[2] \in DOMAIN summary.devs[p[1]]

\* the observed values of a pair that has data
Obs(p) == summary.devs[p[1]][p[2]]

\* the pair's counter in the state file the run loaded, 0 when it has no entry
OldStreak(p) ==
    IF p[1] \in DOMAIN stateFile THEN stateFile[p[1]][p[2]].streak ELSE 0

\* the alert records of the run for the pair
AlertsFor(p) ==
    {i \in 1..Len(alerts) : alerts[i].kw = p[1] /\ alerts[i].dev = p[2]}

\* C1: after the detector's loop (and before the state is saved), every pair
\* with data in the summary has its counter, before the alert rule, at old+1
\* when the observation is top-like and at 0 when it is not, and has
\* last_avgRnk and last_imp at the observed values; a pair observed not
\* top-like has its counter at 0 whatever it was
C1_CounterAndLastObserved ==
    pc = "save" =>
        \A p \in Pairs :
            HasData(p) =>
                /\ p \in DOMAIN counted
                /\ counted[p] = IF is_top_like(Obs(p).imp, Obs(p).avgRnk)
                                THEN OldStreak(p) + 1 ELSE 0
                /\ state[p[1]][p[2]].last_avgRnk = Obs(p).avgRnk
                /\ state[p[1]][p[2]].last_imp = Obs(p).imp
                /\ (~is_top_like(Obs(p).imp, Obs(p).avgRnk)
                       => state[p[1]][p[2]].streak = 0)

\* C1 witness: a pair with counter 1 and a top-like last observation is
\* observed not top-like: its counter is reset and its last values replaced
C1_Witness ==
    /\ pc = "save"
    /\ \E p \in Pairs :
         /\ HasData(p)
         /\ OldStreak(p) = 1
         /\ ~is_top_like(Obs(p).imp, Obs(p).avgRnk)
         /\ stateFile[p[1]][p[2]].last_imp # Obs(p).imp
         /\ state[p[1]][p[2]].streak = 0
         /\ state[p[1]][p[2]].last_imp = Obs(p).imp

\* C2: a run's alerts hold a record for a pair exactly when the pair's
\* counter after the increment-or-reset step is >= STREAK_THRESHOLD; there is
\* one record, it carries the keyword, the device, that counter and the
\* observed rank and impressions, and the pair's counter is 0 after it.  The
\* scenario of one pair: (1.2, 50) from counter 0 gives 1 and no alert, then
\* (1.1, 40) gives an alert and 0, then (5.0, 40) gives 0 and no alert
C2_AlertIffThreshold ==
    pc = "save" =>
        /\ \A p \in Pairs :
             /\ (AlertsFor(p) # {}) <=>
                    (p \in DOMAIN counted /\ counted[p] >= STREAK_THRESHOLD)
             /\ Cardinality(AlertsFor(p)) <= 1
             /\ \A i \in AlertsFor(p) :
                  /\ HasData(p)
                  /\ alerts[i].streak = counted[p]
                  /\ alerts[i].avg = Obs(p).avgRnk
                  /\ alerts[i].imp = Obs(p).imp
                  /\ state[p[1]][p[2]].streak = 0
        /\ \A i \in 1..Len(alerts) : <<alerts[i].kw, alerts[i].dev>> \in Pairs
        /\ \A p \in Pairs :
             HasData(p) =>
                /\ (OldStreak(p) = 0 /\ Obs(p).avgRnk = Rank(120) /\ Obs(p).imp = 50)
                      => (state[p[1]][p[2]].streak = 1 /\ AlertsFor(p) = {})
                /\ (/\ OldStreak(p) = 1
                    /\ stateFile[p[1]][p[2]].last_avgRnk = Rank(120)
                    /\ stateFile[p[1]][p[2]].last_imp = 50
                    /\ Obs(p).avgRnk = Rank(110) /\ Obs(p).imp = 40)
                      => (state[p[1]][p[2]].streak = 0 /\ AlertsFor(p) # {})
                /\ (/\ OldStreak(p) = 0
                    /\ Obs(p).avgRnk = Rank(500) /\ Obs(p).imp = 40)
                      => (state[p[1]][p[2]].streak = 0 /\ AlertsFor(p) = {})

\* C2 witness: the second observation of the scenario: the pair, at counter
\* 1 after (1.2, 50), is observed at (1.1, 40) and the alert record is there
C2_Witness ==
    /\ pc = "save"
    /\ "k1" \in DOMAIN stateFile
    /\ stateFile["k1"]["PC"] = [streak |-> 1, last_avgRnk |-> Rank(120), last_imp |-> 50]
    /\ \E i \in 1..Len(alerts) :
         alerts[i] = [kw |-> "k1", dev |-> "PC", streak |-> 2,
                      avg |-> Rank(110), imp |-> 40]
    /\ state["k1"]["PC"].streak = 0

\* C3: every counter of the state file is an integer c, 0 <= c < STREAK_THRESHOLD
C3_CounterBelowThreshold ==
    \A kw \in DOMAIN stateFile :
        \A dev \in DOMAIN stateFile[kw] :
            /\ stateFile[kw][dev].streak \in Nat
            /\ stateFile[kw][dev].streak < STREAK_THRESHOLD

\* C3 witness: a run whose counter reached the threshold has saved the state
C3_Witness ==
    /\ pc = "notify"
    /\ \E p \in Pairs :
         /\ AlertsFor(p) # {}
         /\ counted[p] = STREAK_THRESHOLD
         /\ stateFile[p[1]][p[2]].streak = 0

\* C4 as claimed: a pair alerted by a run was top-like in that run and in each
\* of the STREAK_THRESHOLD-1 runs of the program right before it
C4_Original ==
    pc = "notify" =>
        \A p \in Pairs : AlertsFor(p) # {} => runTop[p] >= STREAK_THRESHOLD

\* C4 as amended: a pair alerted by a run was top-like in that run and in each
\* of the STREAK_THRESHOLD-1 latest earlier runs that observed the pair and
\* saved the state; the runs between them, in which the pair has no row or
\* which end before the state is saved, neither count nor break the streak
C4_AlertOnlyAfterStreak ==
    /\ pc = "save" =>
         \A p \in Pairs :
            AlertsFor(p) # {} =>
                /\ HasData(p)
                /\ is_top_like(Obs(p).imp, Obs(p).avgRnk)
                /\ epLen[p] >= STREAK_THRESHOLD - 1
    /\ pc = "notify" =>
         \A p \in Pairs : AlertsFor(p) # {} => epLen[p] >= STREAK_THRESHOLD

\* C4 witness: an alert for a pair that was not top-like in the run before
C4_Witness ==
    /\ pc = "notify"
    /\ \E p \in Pairs :
         /\ AlertsFor(p) # {}
         /\ epLen[p] >= STREAK_THRESHOLD
         /\ runTop[p] < STREAK_THRESHOLD

\* C5 as claimed: an unbroken sequence of top-like observations of a pair
\* holds at most one alert for the pair
C5_Original ==
    \A p \in Pairs : epAlerts[p] <= 1

\* C5 as amended: an unbroken sequence of n top-like observations of a pair,
\* in runs that saved the state, holds at most n \div STREAK_THRESHOLD alerts
\* for the pair: two alerts are at least STREAK_THRESHOLD observations apart
C5_AlertsPerEpisode ==
    \A p \in Pairs : epAlerts[p] * STREAK_THRESHOLD <= epLen[p]

\* C5 witness: a second alert within one episode
C5_Witness ==
    \E p \in Pairs : epAlerts[p] = 2 /\ epLen[p] = 2 * STREAK_THRESHOLD

(***************************************************************************)
(* The claims about request_json and fetch_stats_by_keyword_ids, under     *)
(* SpecFetch.                                                              *)
(***************************************************************************)
\* the attempts among the events of the running call
AttemptsAt == {i \in 1..Len(rq.log) : rq.log[i].ev = "attempt"}

\* the attempt failed: a transport exception or a status >= 400
FailedAttempt(e) == e.status = 0 \/ e.status >= 400

\* the attempt ended in a way the retry policy names: 429, >= 500 or a
\* transport exception
Retryable(e) == e.status = 0 \/ e.status = 429 \/ e.status >= 500

\* C6: an attempt answered with a status in [400,500) other than 429 is the
\* last event of its call: the call raised that attempt's error, with the
\* response body, and made no further attempt and no backoff sleep
C6_Original ==
    \A i \in AttemptsAt :
        (rq.log[i].status >= 400 /\ rq.log[i].status < 500 /\ rq.log[i].status # 429)
            => /\ i = Len(rq.log)
               /\ rq.ended = "raised"
               /\ rq.last_err.attempt = rq.log[i].n
               /\ rq.last_err.status = rq.log[i].status

\* C7: a call makes at most HTTP_RETRY attempts, numbered 1, 2, ...; an
\* attempt that ends with 429, >= 500 or a transport exception and is not the
\* HTTP_RETRY-th is followed by the next attempt (made, or the one the loop
\* is at); the first attempt below 400 is the last event and the call returns
\* its parsed body; a call that raised made HTTP_RETRY attempts, all failed,
\* and raised the error of the last; a running call still has an attempt left
C7_RetryPolicy ==
    /\ Cardinality(AttemptsAt) <= HTTP_RETRY
    /\ \A i \in AttemptsAt : rq.log[i].n = Cardinality({j \in AttemptsAt : j <= i})
    /\ \A i \in AttemptsAt :
          (Retryable(rq.log[i]) /\ rq.log[i].n < HTTP_RETRY) =>
              \/ \E j \in AttemptsAt : j > i /\ rq.log[j].n = rq.log[i].n + 1
              \/ rq.ended = "" /\ rq.attempt = rq.log[i].n + 1
    /\ \A i \in AttemptsAt :
          ~FailedAttempt(rq.log[i]) =>
              /\ i = Len(rq.log)
              /\ rq.ended = "returned"
              /\ rq.data = rq.log[i].shape
              /\ \A j \in AttemptsAt : j < i => FailedAttempt(rq.log[j])
    /\ rq.ended = "returned" =>
          \E i \in AttemptsAt : ~FailedAttempt(rq.log[i])
    /\ rq.ended = "raised" =>
          /\ Cardinality(AttemptsAt) = HTTP_RETRY
          /\ \A i \in AttemptsAt : FailedAttempt(rq.log[i])
          /\ rq.last_err.attempt = HTTP_RETRY
          /\ \E i \in AttemptsAt :
                /\ rq.log[i].n = HTTP_RETRY
                /\ rq.last_err.status = rq.log[i].status
                /\ rq.last_err.type = IF rq.log[i].status = 0
                                      THEN "Transport" ELSE "RuntimeError"
    /\ rq.ended = "" =>
          /\ rq.attempt \in 1..HTTP_RETRY
          /\ Cardinality(AttemptsAt) = rq.attempt - 1

\* C7 witness: a call raised after HTTP_RETRY attempts that ended with 429,
\* with a transport exception and with 500
C7_Witness ==
    /\ rq.ended = "raised"
    /\ Cardinality(AttemptsAt) = HTTP_RETRY
    /\ \E i, j, k \in AttemptsAt :
          /\ i < j /\ j < k
          /\ rq.log[i].status = 429
          /\ rq.log[j].status = 0
          /\ rq.log[k].status = 500
    /\ rq.last_err.status = 500

\* the platform's error code of an error: the code field of the body
PlatformCode(e) ==
    IF Len(e.text) >= 2 /\ e.text[1] = "code" THEN e.text[2] ELSE ""

\* C8: the request without the breakdown is made for a batch exactly when
\* the batch's request with the breakdown failed with the platform's code
\* 11001; it carries the batch's ids and the reduced fields, and an error of
\* another cause leaves fetch_stats_by_keyword_ids as it is, with no fallback
C8_Original ==
    /\ (fs_pc = "call" /\ ~fs_breakdown) =>
          /\ PlatformCode(fs_primary_err) = "11001"
          /\ fs_requests[Len(fs_requests)] =
                [ids |-> fs_batch, breakdown |-> FALSE, fields |-> <<"impCnt", "avgRnk">>]
    /\ (fs_ended = "raised" /\ fs_breakdown) =>
          /\ PlatformCode(fs_err) # "11001"
          /\ fs_err = rq.last_err
          /\ fs_requests[Len(fs_requests)].breakdown

(***************************************************************************)
(* The claims about summarize_by_keyword, under SpecSum.                   *)
(***************************************************************************)
\* the rows of the input that are counted in the bucket of kw and dev
RowsOf(kw, dev) ==
    {i \in 1..Len(sm_rows) :
        /\ ~Skipped(sm_rows[i], sm_map)
        /\ KwOf(sm_map, sm_rows[i].id) = kw
        /\ DevKey(sm_rows[i]) = dev}

\* the sum of the values v[i] over the set I of indices
RECURSIVE SumOver(_, _)
SumOver(I, v) ==
    IF I = {} THEN 0
    ELSE LET i == CHOOSE x \in I : TRUE IN v[i] + SumOver(I \ {i}, v)

\* per row of the input: its impressions, its clicks, its weight and its
\* weighted rank
Imp == [i \in 1..Len(sm_rows) |-> sm_rows[i].impCnt]
Clk == [i \in 1..Len(sm_rows) |-> sm_rows[i].clkCnt]
Weight ==
    [i \in 1..Len(sm_rows) |->
        IF sm_rows[i].hasRnk /\ sm_rows[i].impCnt > 0 THEN sm_rows[i].impCnt ELSE 0]
Weighted ==
    [i \in 1..Len(sm_rows) |->
        IF sm_rows[i].hasRnk /\ sm_rows[i].impCnt > 0
        THEN sm_rows[i].avgRnk * sm_rows[i].impCnt ELSE 0]

\* the label of a row that names the mobile device
IsMobileLabel(l) == l \in {"MOBILE", "Mobile", "KO_MOBILE"}

\* C9: the summary has no device key other than PC and MOBILE, and a row
\* labelled with the mobile device's Hangul name is counted in MOBILE
C9_Original ==
    sm_pc = "done" =>
        /\ \A kw \in DOMAIN sm_out.devs : DOMAIN sm_out.devs[kw] \subseteq {"PC", "MOBILE"}
        /\ \A i \in 1..Len(sm_rows) :
              (~Skipped(sm_rows[i], sm_map) /\ IsMobileLabel(sm_rows[i].dev)) =>
                  LET kw == KwOf(sm_map, sm_rows[i].id)
                  IN  /\ kw \in DOMAIN sm_out.devs
                      /\ "MOBILE" \in DOMAIN sm_out.devs[kw]
                      /\ sm_out.devs[kw]["MOBILE"].imp >= sm_rows[i].impCnt

Contributing(kw, dev) == {i \in RowsOf(kw, dev) : Weight[i] > 0}

\* the float a is within k units in the last place of the float b
UlpClose(a, b, k) ==
    LET e == IF a.e < b.e THEN a.e ELSE b.e
        A == ShiftLeft(a.m, a.e - e)
        B == ShiftLeft(b.m, b.e - e)
        K == ShiftLeft(BigOf(k), b.e - e)
    IN  BigLeq(A, BigAdd(B, K, 0)) /\ BigLeq(B, BigAdd(A, K, 0))

\* the buckets whose contributing rows (there is one at least) have one rank
OneRankBuckets ==
    {key \in DOMAIN sm_flt :
        LET I == Contributing(key[1], key[2])
        IN  I # {} /\ \A i, j \in I : sm_rows[i].avgRnk = sm_rows[j].avgRnk}

\* the rank of the contributing rows of such a bucket, in hundredths
OneRank(key) ==
    sm_rows[CHOOSE i \in Contributing(key[1], key[2]) : TRUE].avgRnk

\* C11 as claimed: when all the rows that contribute weight to a bucket have
\* the same rank R, the bucket's average rank is R
C11_Original ==
    sm_pc = "done" =>
        \A key \in OneRankBuckets :
            /\ sm_flt[key].def
            /\ sm_flt[key].f = FOfRank(OneRank(key))

\* C11 as amended: when all the n rows that contribute weight to a bucket
\* have the same rank R, the bucket's average rank is R up to the rounding of
\* the float arithmetic: it is within n + 1 units in the last place of R, and
\* it is R itself when R is a multiple of 0.25 (R times the impressions is
\* then computed exactly)
C11_AverageNearR ==
    sm_pc = "done" =>
        \A key \in OneRankBuckets :
            LET n == Cardinality(Contributing(key[1], key[2]))
                R == FOfRank(OneRank(key))
            IN  /\ sm_flt[key].def
                /\ UlpClose(sm_flt[key].f, R, n + 1)
                /\ (OneRank(key) % 25 = 0) => sm_flt[key].f = R
                /\ sm_out.devs[key[1]][key[2]].avgRnk = Rank(OneRank(key))

\* C11 witness: three rows of rank 1.35 with impressions 3, 77 and 3 in one
\* bucket, whose average is not the float of 1.35
C11_Witness ==
    /\ sm_pc = "done"
    /\ \E key \in OneRankBuckets :
          /\ Cardinality(Contributing(key[1], key[2])) = 3
          /\ \E i, j \in Contributing(key[1], key[2]) :
                sm_rows[i].impCnt # sm_rows[j].impCnt
          /\ OneRank(key) = 135
          /\ sm_flt[key].def
          /\ sm_flt[key].f # FOfRank(135)
          /\ UlpClose(sm_flt[key].f, FOfRank(135), 1)

(***************************************************************************)
(* The claim about is_top_like, under SpecTop.                             *)
(***************************************************************************)
\* the rank r (defined) is above the threshold
AboveThreshold(r) == r.n > RANK_THRESHOLD * r.d

\* C12: is_top_like(imp, rank) is true exactly when the rank is defined,
\* imp >= MIN_IMP and rank <= RANK_THRESHOLD; a true result with
\* imp >= MIN_IMP stays true for the same rank and more impressions, and a
\* rank above RANK_THRESHOLD gives false whatever the impressions
C12_TopLikeExactAndMonotone ==
    tl_pc = "done" =>
        /\ tl_ret = (/\ tl_avg_rnk.def
                     /\ tl_imp >= MIN_IMP
                     /\ ~AboveThreshold(tl_avg_rnk))
        /\ tl_ret2 = (/\ tl_avg_rnk2.def
                      /\ tl_imp2 >= MIN_IMP
                      /\ ~AboveThreshold(tl_avg_rnk2))
        /\ (tl_ret /\ tl_avg_rnk2 = tl_avg_rnk /\ tl_imp2 >= tl_imp) => tl_ret2
        /\ (tl_avg_rnk2.def /\ AboveThreshold(tl_avg_rnk2)) => ~tl_ret2

\* C12 witness: true at MIN_IMP impressions and a rank at the threshold;
\* false with more impressions and the rank raised by 0.0001
C12_Witness ==
    /\ tl_pc = "done"
    /\ tl_imp = MIN_IMP /\ tl_avg_rnk = Rank(RANK_THRESHOLD) /\ tl_ret
    /\ tl_imp2 > tl_imp
    /\ tl_avg_rnk2 = Quot(RANK_THRESHOLD * 100 + 1, 100)
    /\ ~tl_ret2

(***************************************************************************)
(* The claim about write_json, under SpecWrite.                            *)
(***************************************************************************)
\* C13: at every step of a call of write_json for the state file or for the
\* cache file, and after it was killed or raised, the target holds what it
\* held before the call or the whole new document, which it holds once the
\* call returned; so neither file ever holds a document in part, whatever
\* calls were killed before
C13_TargetOldOrNew ==
    /\ wj_files[<<wj_path, "">>] \in {wj_prev, Whole(wj_data)}
    /\ wj_pc = "done" => wj_files[<<wj_path, "">>] = Whole(wj_data)
    /\ wj_pc \notin {"closed", "done"} => wj_files[<<wj_path, "">>] = wj_prev
    /\ \A name \in WritePaths :
          \/ wj_files[<<name, "">>] = Absent
          \/ \E doc \in 1..wj_data : wj_files[<<name, "">>] = Whole(doc)

\* C13 witness: the process was killed with the new document written in
\* part, over a target that holds the whole document of an earlier call
C13_Witness ==
    /\ wj_pc = "killed"
    /\ wj_prev # Absent
    /\ wj_files[<<wj_path, "">>] = wj_prev
    /\ wj_files[<<wj_path, ".tmp">>].doc = wj_data
    /\ wj_files[<<wj_path, ".tmp">>].n > 0
    /\ wj_files[<<wj_path, ".tmp">>].n < WriteChunks

(***************************************************************************)
(* The claim about the notification step, under SpecNotify.                *)
(***************************************************************************)
\* C14: the notification step of a run makes at most one POST; it makes one
\* exactly when the run has an alert and the webhook URL is set; the message
\* lists the first alerts of the run, in their order, and at most 50 of them
C14_OnePostCapped ==
    nt_pc = "done" =>
        /\ Len(nt_posts) <= 1
        /\ (nt_posts # <<>>) <=> (nt_alerts # <<>> /\ nt_url)
        /\ \A k \in 1..Len(nt_posts) :
              /\ Len(nt_posts[k]) <= 50
              /\ Len(nt_posts[k]) <= Len(nt_alerts)
              /\ Len(nt_posts[k]) = 50 \/ Len(nt_posts[k]) = Len(nt_alerts)
              /\ \A i \in 1..Len(nt_posts[k]) : nt_posts[k][i] = nt_alerts[i]

\* C14 witness: a run with more than 50 alerts made its one POST, which
\* lists 50 of them
C14_Witness ==
    /\ nt_pc = "done"
    /\ Len(nt_alerts) > 50
    /\ Len(nt_posts) = 1
    /\ Len(nt_posts[1]) = 50

(***************************************************************************)
(* The claims about how a run ends, under Spec.                            *)
(***************************************************************************)
\* C15: a run whose POST to the webhook failed (no connection, a timeout,
\* an error status) was not aborted: it ended by main returning, with the
\* new state in state.json
C15_Original ==
    (pc = "exit" /\ runEnd.post \in {"exception", "error_status"}) =>
        /\ runEnd.how = "returned"
        /\ "save" \in did
        /\ stateFile = state

\* C16: a run goes on to the statistics request only with a keyword id; with
\* none it stops (main returns at line 121) in its first step, and it has
\* then asked for no statistics, not replaced state.json and made no POST
C16_NoIdsStops ==
    /\ [](/\ pc \in {"fetch", "detect", "save", "notify"} => keyword_ids # <<>>
          /\ (pc = "exit" /\ runEnd.how = "stopped") =>
                /\ keyword_ids = <<>>
                /\ did = {}
                /\ posted = <<>>
          /\ (pc = "exit" /\ keyword_ids = <<>> /\ runEnd.how # "raised") =>
                runEnd.how = "stopped")
    /\ [][(pc' = "exit" /\ runEnd'.how = "stopped") =>
            /\ pc = "idle"
            /\ stateFile' = stateFile
            /\ did' = {}
            /\ posted' = <<>>]_allvars

\* C16 witness: no wanted keyword has an id in the account (all are
\* missing) and the run stopped, with the state.json of an earlier run there
C16_Witness ==
    /\ pc = "exit"
    /\ runEnd.how = "stopped"
    /\ keyword_ids = <<>>
    /\ missing # <<>>
    /\ stateFile # <<>>
    /\ did = {}

\* C19: no run is ended by an exception of reading or writing the state file
\* or the cache file
C19_Original ==
    (pc = "exit" /\ runEnd.how = "raised") =>
        runEnd.at \notin {"load_state", "save_state", "cache_read", "cache_write"}

(***************************************************************************)
(* The claim about the resolution of the wanted keywords, under            *)
(* SpecResolve.                                                            *)
(***************************************************************************)
\* the elements of a sequence
Range(seq) == {seq[i] : i \in 1..Len(seq)}

\* the wanted keyword has an entry, and not an empty one, in the account map
InAccount(kw) == kw \in DOMAIN rs_map /\ rs_map[kw] # <<>>

\* the wanted keywords with ids, in their order, from the i-th on, and the
\* ids they contribute
RECURSIVE IdsFrom(_)
IdsFrom(i) ==
    IF i > Len(rs_wanted) THEN <<>>
    ELSE (IF InAccount(rs_wanted[i]) THEN rs_map[rs_wanted[i]] ELSE <<>>) \o IdsFrom(i + 1)

\* what lines 102-114 leave in keyword_ids, id_to_keyword and missing
ResolvedAsMapped ==
    /\ \A i \in 1..Len(rs_wanted) :
          LET kw == rs_wanted[i]
          IN  IF InAccount(kw)
              THEN /\ kw \notin Range(rs_out.missing)
                   /\ \A j \in 1..Len(rs_map[kw]) :
                         /\ rs_map[kw][j] \in Range(rs_out.keyword_ids)
                         /\ rs_map[kw][j] \in DOMAIN rs_out.id_to_keyword
                         /\ rs_out.id_to_keyword[rs_map[kw][j]] = kw
              ELSE /\ kw \in Range(rs_out.missing)
                   /\ \A x \in DOMAIN rs_out.id_to_keyword :
                         rs_out.id_to_keyword[x] # kw
    /\ rs_out.keyword_ids = IdsFrom(1)
    /\ DOMAIN rs_out.id_to_keyword = Range(rs_out.keyword_ids)
    /\ Range(rs_out.missing) = {kw \in Range(rs_wanted) : ~InAccount(kw)}
    /\ Len(rs_out.missing) = Cardinality(Range(rs_out.missing))

RECURSIVE BatchesOf(_)
BatchesOf(reqs) ==
    IF reqs = <<>> THEN <<>>
    ELSE (IF Head(reqs).breakdown THEN <<Head(reqs).ids>> ELSE <<>>) \o BatchesOf(Tail(reqs))

RECURSIVE Flat(_)
Flat(batches) ==
    IF batches = <<>> THEN <<>> ELSE Head(batches) \o Flat(Tail(batches))

\* C18: every request carries only ids that start with nkw-; the batches
\* asked for so far, one after the other, followed by the batches still to
\* ask for, are the ids of the argument that start with nkw-, in their
\* order, so that each of them is in exactly one batch; a batch has 1 to
\* MAX_IDS_PER_CALL ids; a request without the breakdown repeats the batch of
\* the request before it; a call that returned has asked for every batch;
\* and a request begins only when no request_json call is running
C18_FilteredOrderedBatches ==
    /\ [](/\ \A i \in 1..Len(fs_requests) :
                /\ \A j \in 1..Len(fs_requests[i].ids) :
                      StartsWithNkw(fs_requests[i].ids[j])
                /\ Len(fs_requests[i].ids) \in 1..MAX_IDS_PER_CALL
                /\ ~fs_requests[i].breakdown =>
                      /\ i > 1
                      /\ fs_requests[i - 1].breakdown
                      /\ fs_requests[i - 1].ids = fs_requests[i].ids
          /\ fs_pc # "begin" =>
                Flat(BatchesOf(fs_requests)) \o Flat(fs_todo) = KeepKeywordIds(fs_input)
          /\ \A i \in 1..Len(fs_todo) : Len(fs_todo[i]) \in 1..MAX_IDS_PER_CALL
          /\ \A i \in 1..(Len(BatchesOf(fs_requests)) - 1) :
                Len(BatchesOf(fs_requests)[i]) = MAX_IDS_PER_CALL
          /\ fs_ended = "returned" =>
                Flat(BatchesOf(fs_requests)) = KeepKeywordIds(fs_input)
          /\ fs_pc = "begin" => fs_requests = <<>>)
    /\ [][fs_requests' # fs_requests =>
            /\ fs_pc = "begin" \/ rq.ended # ""
            /\ Len(fs_requests') = Len(fs_requests) + 1
            /\ SubSeq(fs_requests', 1, Len(fs_requests)) = fs_requests
            /\ rq' = NewCall]_allvars

\* C18 witness: of four ids one does not start with nkw-; the call returned
\* after a batch of two ids and a batch of one
C18_Witness ==
    /\ fs_ended = "returned"
    /\ fs_input = <<"nkw-1", "grp-9", "nkw-2", "nkw-3">>
    /\ BatchesOf(fs_requests) = << <<"nkw-1", "nkw-2">>, <<"nkw-3">> >>

(***************************************************************************)
(* The claim about the backoff sleeps of one request_json call, under      *)
(* SpecFetch.                                                              *)
(***************************************************************************)
SleepsAt == {i \in 1..Len(rq.log) : rq.log[i].ev = "sleep"}

\* C20 as stated: every sleep of the call comes right after a failed attempt
\* n, has base HTTP_RETRY_BACKOFF * n, and is followed by attempt n + 1 (made,
\* or the one the running call is at); there is no sleep after attempt
\* HTTP_RETRY
C20_Original ==
    \A i \in SleepsAt :
        /\ i > 1
        /\ rq.log[i - 1].ev = "attempt"
        /\ FailedAttempt(rq.log[i - 1])
        /\ rq.log[i].n = rq.log[i - 1].n
        /\ rq.log[i].base = HTTP_RETRY_BACKOFF * rq.log[i].n
        /\ rq.log[i].n < HTTP_RETRY
        /\ \/ i < Len(rq.log) /\ rq.log[i + 1].ev = "attempt"
                               /\ rq.log[i + 1].n = rq.log[i].n + 1
           \/ i = Len(rq.log) /\ rq.ended = "" /\ rq.attempt = rq.log[i].n + 1

(***************************************************************************)
(* The claim about bodies and rows of any shape and content, under          *)
(* SpecShape.                                                              *)
(***************************************************************************)
\* the rows of all_rows that raise no exception
RECURSIVE WellFormed(_)
WellFormed(raw_rows) ==
    IF raw_rows = <<>> THEN <<>>
    ELSE (IF RowError(Head(raw_rows), sh_map) = "" THEN <<Head(raw_rows)>> ELSE <<>>)
             \o WellFormed(Tail(raw_rows))

\* C21 as stated: a body that is neither a list nor a dict whose data is a
\* list is wrapped as it is into one row; for every body, summarizing
\* returns, without an exception, the summary of the well-formed rows with a
\* known id, the other rows being skipped
C21_Original ==
    /\ (sh_pc # "body" /\ sh_data.shape \notin {"list", "envelope"}) =>
          /\ Len(sh_all_rows) = 1
          /\ sh_all_rows[1].raw = sh_data
    /\ sh_pc = "done" =>
          /\ sh_out.raised = ""
          /\ sh_out.out =
                summarize_by_keyword(
                    [i \in 1..Len(WellFormed(sh_all_rows)) |->
                        Values(WellFormed(sh_all_rows)[i], sh_map)], sh_map)

(***************************************************************************)
(* The claim about a run whose upstream request fails for good, under      *)
(* Spec.                                                                   *)
(***************************************************************************)
\* where a listing request or a statistics request ends a run
UpstreamFailures == {"listing", "fetch", "fetch_later_batch"}

\* C22: a run that a listing request or a statistics request ended, for the
\* first batch or for a later one, has not replaced state.json; state.json
\* is replaced only by the save step of a run, once per run; and the step in
\* which the request fails leaves state.json as it is: the file after the
\* failed run is the file before it
C22_FailedRunKeepsState ==
    /\ []((pc = "exit" /\ runEnd.how = "raised" /\ runEnd.at \in UpstreamFailures)
              => "save" \notin did)
    /\ [][stateFile' # stateFile =>
            /\ pc = "save"
            /\ "save" \notin did
            /\ "save" \in did']_allvars
    /\ [][("save" \in did' /\ "save" \notin did) => (pc = "save" /\ pc' = "notify")]_allvars
    /\ [][(pc' = "exit" /\ runEnd'.how = "raised" /\ runEnd'.at \in UpstreamFailures) =>
            stateFile' = stateFile]_allvars

\* C22 witness: a statistics request of a later batch ended the run, and
\* state.json holds a counter above 0 written by an earlier run
C22_Witness ==
    /\ pc = "exit"
    /\ runEnd.how = "raised"
    /\ runEnd.at = "fetch_later_batch"
    /\ "stats" \in did
    /\ \E p \in Pairs :
          /\ p[1] \in DOMAIN stateFile
          /\ stateFile[p[1]][p[2]].streak > 0

(***************************************************************************)
(* The claim about the entries a completed run leaves alone, under Spec.   *)
(***************************************************************************)
\* C23: the save step of a run writes every keyword of the state it loaded,
\* and adds only keywords of the run's summary; the entry of a pair without
\* PC or MOBILE data in the summary is written with the counter and the
\* last-observed values it had in the loaded state (the all-zero initial
\* entry for a keyword the loaded state lacks)
C23_OtherEntriesKept ==
    [][(pc = "save" /\ pc' = "notify") =>
          /\ DOMAIN stateFile \subseteq DOMAIN stateFile'
          /\ (DOMAIN stateFile' \ DOMAIN stateFile) \subseteq DOMAIN summary.devs
          /\ \A kw \in DOMAIN stateFile' : \A dev \in DetectDevs :
                <<kw, dev>> \notin Observed(summary) =>
                    stateFile'[kw][dev] = EntryOf(stateFile, kw)[dev]]_allvars

\* C23 witness: a run has saved the state; a keyword that is no longer wanted
\* and has no data in the summary keeps its counter above 0, and the entry of
\* an observed pair of another keyword has changed
C23_Witness ==
    /\ pc = "notify"
    /\ "save" \in did
    /\ \E kw \in DOMAIN stateFile :
          /\ kw \notin DOMAIN summary.devs
          /\ \A x \in DOMAIN id_to_keyword : id_to_keyword[x] # kw
          /\ \E dev \in DetectDevs : stateFile[kw][dev].streak > 0
    /\ \E p \in Observed(summary) : stateFile[p[1]][p[2]].streak > 0

(***************************************************************************)
(* The claim about rows without a device label, under SpecObserve.         *)
(***************************************************************************)
\* the row carries a device label
HasLabel(row) == row.dev # ""

\* the rows that are summed and carry no device label
Unlabelled ==
    {i \in 1..Len(dt_rows) : ~Skipped(dt_rows[i], dt_map) /\ ~HasLabel(dt_rows[i])}

\* the summary without these rows
LabelledSummary == summarize_by_keyword(SelectSeq(dt_rows, HasLabel), dt_map)

\* C24: a row without a device label is summed under a device key of its
\* keyword that is neither PC nor MOBILE, which holds the impressions of
\* these rows; and the detector gives what it gives without these rows: the
\* same alerts, and for every keyword the same entry, which is the all-zero
\* initial entry when only these rows brought the keyword into the state
C24_UnlabelledRowsIgnored ==
    LET labelled == LabelledSummary
    IN  /\ dt_pc \in {"summary", "done"} =>
              \A i \in Unlabelled :
                  LET kw  == KwOf(dt_map, dt_rows[i].id)
                      dev == DevKey(dt_rows[i])
                  IN  /\ dev \notin DetectDevs
                      /\ kw \in DOMAIN dt_summary.devs
                      /\ dev \in DOMAIN dt_summary.devs[kw]
                      /\ dt_summary.devs[kw][dev].imp =
                            SumOver({j \in Unlabelled : KwOf(dt_map, dt_rows[j].id) = kw},
                                    [j \in 1..Len(dt_rows) |-> dt_rows[j].impCnt])
                      /\ \A d \in DetectDevs :
                            d \in DOMAIN dt_summary.devs[kw] <=>
                                /\ kw \in DOMAIN labelled.devs
                                /\ d \in DOMAIN labelled.devs[kw]
        /\ dt_pc = "done" =>
              LET without == DetectState(dt_loaded, labelled)
              IN  /\ dt_alerts = DetectAlerts(dt_loaded, labelled, 1)
                  /\ DOMAIN dt_state = DOMAIN dt_loaded \cup DOMAIN dt_summary.devs
                  /\ \A kw \in DOMAIN dt_state : dt_state[kw] = EntryOf(without, kw)

\* C24 witness: a keyword has only a row without a label, with impressions
\* and a rank that satisfy is_top_like, and counters one below the threshold
\* in the loaded state; its entry is as loaded and it has no alert, while a
\* pair of another keyword has one
C24_Witness ==
    /\ dt_pc = "done"
    /\ \E i \in Unlabelled :
          LET kw == KwOf(dt_map, dt_rows[i].id)
          IN  /\ DOMAIN dt_summary.devs[kw] = {"UNKNOWN"}
              /\ is_top_like(dt_summary.devs[kw]["UNKNOWN"].imp,
                             dt_summary.devs[kw]["UNKNOWN"].avgRnk)
              /\ kw \in DOMAIN dt_loaded
              /\ \A dev \in DetectDevs : dt_loaded[kw][dev].streak = STREAK_THRESHOLD - 1
              /\ dt_state[kw] = dt_loaded[kw]
              /\ \A j \in 1..Len(dt_alerts) : dt_alerts[j].kw # kw
    /\ dt_alerts # <<>>

\* C24 witness for the initial entry: a keyword the loaded state lacks has
\* only a row without a label, and the state holds its all-zero entry
C24_WitnessNewEntry ==
    /\ dt_pc = "done"
    /\ \E i \in Unlabelled :
          LET kw == KwOf(dt_map, dt_rows[i].id)
          IN  /\ kw \notin DOMAIN dt_loaded
              /\ dt_state[kw] = InitEntry

====
